---- MODULE Spec2Model ----
(***************************************************************************)
(* IPO prospectus analyzer: the analysis pipeline of orchestrator.py, the  *)
(* recommendation engine of scorer.py and the risk analyzer of             *)
(* risk_analyzer.py.                                                       *)
(*                                                                         *)
(* Numbers.  Python floats are modelled as exact rationals <<n, d>> in     *)
(* lowest terms (d > 0); <<0, 0>> is Python's None where a number is       *)
(* expected.  The only place where the binary rounding error of a float    *)
(* decides a result is round(overall, 1) on an exact decimal tie; there    *)
(* the direction is an input (fp) of the model.                            *)
(*                                                                         *)
(* Dictionaries.  A dict whose iteration order the code relies on          *)
(* (scores, weights, year -> value series) is a sequence of <<key,         *)
(* value>> pairs in insertion order; any other dict is a function whose    *)
(* DOMAIN is its key set.                                                  *)
(***************************************************************************)
EXTENDS Integers, Sequences, FiniteSets, TLC

VARIABLES
    components,      \* which of self.embedder / vector_store / llm are set
    pc,              \* position inside run_complete_analysis
    processed_data,  \* local processed_data of run_complete_analysis
    results,         \* self.results
    ret,             \* value returned by run_complete_analysis
    events,          \* calls and returns of the stage methods, in order
    outcome,         \* per stage: what its body did (history)
    artifact,        \* documents written by save_results, in order
    call,            \* engine harness: the function applied ("none" before)
    arg,             \* engine harness: its input
    result           \* engine harness: its output

vars == <<components, pc, processed_data, results, ret, events, outcome,
          artifact, call, arg, result>>

pipelineVars == <<components, pc, processed_data, results, ret, events,
                  outcome, artifact>>
harnessVars == <<call, arg, result>>

----------------------------------------------------------------------------
(* Bounds *)

MaxRisks == 3        \* longest list of risk records the generator returns
MaxTenths == 1000    \* overall scores given to determine_stance: 0.0 .. MaxTenths / 10
MaxWords == 3        \* most words in the title and description of a parsed record
MaxRows == 2         \* most rows of a table
MaxTables == 3       \* most tables of a document

----------------------------------------------------------------------------
(* Rational arithmetic *)

RECURSIVE GCD(_, _)
GCD(a, b) == IF b = 0 THEN a ELSE GCD(b, a % b)

Abs(x) == IF x < 0 THEN -x ELSE x

Rat(n, d) == LET g == GCD(Abs(n), d) IN <<n \div g, d \div g>>
Num(n) == <<n, 1>>
NoneNum == <<0, 0>>

RAdd(x, y) == Rat(x[1] * y[2] + y[1] * x[2], x[2] * y[2])
RSub(x, y) == Rat(x[1] * y[2] - y[1] * x[2], x[2] * y[2])
RMul(x, y) == Rat(x[1] * y[1], x[2] * y[2])
RLt(x, y) == x[1] * y[2] < y[1] * x[2]
RLe(x, y) == x[1] * y[2] <= y[1] * x[2]
RGt(x, y) == RLt(y, x)
RGe(x, y) == RLe(y, x)
RMin(x, y) == IF RLe(x, y) THEN x ELSE y
RMax(x, y) == IF RGe(x, y) THEN x ELSE y

(* round(x, 1): the nearest multiple of 1/10.  On an exact decimal tie the *)
(* double nearest to x lies on either side of it, so the direction fp      *)
(* (0 = down, 1 = up) is an input.                                         *)
Round1(x, fp) ==
    LET t == (10 * x[1]) \div x[2]
        r == 2 * (10 * x[1] - t * x[2])
    IN  IF r < x[2] THEN Rat(t, 10)
        ELSE IF r > x[2] THEN Rat(t + 1, 10)
        ELSE Rat(t + fp, 10)

----------------------------------------------------------------------------
(* Dictionaries *)

EmptyDict == <<>>

\* d.get(k, default) on a dict modelled as a function
Get(d, k, default) == IF k \in DOMAIN d THEN d[k] ELSE default

\* an insertion-ordered dict: keys, membership, lookup, values
ODKeys(od) == {od[i][1] : i \in DOMAIN od}
ODGet(od, k, default) ==
    IF k \in ODKeys(od)
    THEN od[CHOOSE i \in DOMAIN od : od[i][1] = k][2]
    ELSE default
ODLastValue(od) == od[Len(od)][2]

----------------------------------------------------------------------------
(* Text.  A str is a sequence of tokens (TLA+ strings); " " and "\n" are    *)
(* the whitespace tokens.                                                   *)

Whitespace == {" ", "\n"}

RECURSIVE StrLen(_)
StrLen(text) == IF text = <<>> THEN 0 ELSE Len(Head(text)) + StrLen(Tail(text))

RECURSIVE LStrip(_)
LStrip(text) ==
    IF text # <<>> /\ Head(text) \in Whitespace THEN LStrip(Tail(text)) ELSE text

RECURSIVE RStrip(_)
RStrip(text) ==
    IF text # <<>> /\ text[Len(text)] \in Whitespace
    THEN RStrip(SubSeq(text, 1, Len(text) - 1))
    ELSE text

\* str.strip()
Strip(text) == RStrip(LStrip(text))

----------------------------------------------------------------------------
(* scorer.py: RecommendationEngine *)

\* self.weights, in declaration order
weights ==
    << <<"business_score", Rat(25, 100)>>,
       <<"financial_score", Rat(30, 100)>>,
       <<"industry_score", Rat(20, 100)>>,
       <<"risk_score", Rat(15, 100)>>,
       <<"valuation_score", Rat(10, 100)>> >>

\* self.thresholds
thresholds == [conservative |-> 75, neutral |-> 60, aggressive |-> 50]

\* Python truth value of a number or None
Truthy(x) == x # NoneNum /\ x[1] # 0

_score_business(business_analysis) == Num(70)

\* _score_financials with a threshold of each group compared inclusively
_score_financials_inclusive(financial_data) ==
    LET metrics == Get(financial_data, "basic_metrics", EmptyDict)
        growth == Get(financial_data, "growth_metrics", EmptyDict)
        ratios == Get(financial_data, "ratios", EmptyDict)
        revenue_cagr == Get(growth, "revenue_cagr_3y", NoneNum)
        s1 == IF Truthy(revenue_cagr)
              THEN IF RGe(revenue_cagr, Num(20)) THEN 15
                   ELSE IF RGt(revenue_cagr, Num(10)) THEN 10
                   ELSE IF RGt(revenue_cagr, Num(5)) THEN 5
                   ELSE 0
              ELSE 0
        ebitda_margin == Get(metrics, "ebitda_margin", <<>>)
        s2 == IF ebitda_margin # <<>>
              THEN LET latest_margin == ODLastValue(ebitda_margin)
                   IN  IF RGt(latest_margin, Num(20)) THEN 15
                       ELSE IF RGe(latest_margin, Num(10)) THEN 10
                       ELSE IF RGt(latest_margin, Num(5)) THEN 5
                       ELSE 0
              ELSE 0
        de_ratio == Get(ratios, "debt_to_equity", <<>>)
        s3 == IF de_ratio # <<>>
              THEN LET latest_de == ODLastValue(de_ratio)
                   IN  IF RLt(latest_de, Rat(1, 2)) THEN 10
                       ELSE IF RLe(latest_de, Num(1)) THEN 5
                       ELSE IF RGt(latest_de, Num(2)) THEN -10
                       ELSE 0
              ELSE 0
        score == Num(50 + s1 + s2 + s3)
    IN  RMin(RMax(score, Num(0)), Num(100))

_score_financials(financial_data) ==
    LET metrics == Get(financial_data, "basic_metrics", EmptyDict)
        growth == Get(financial_data, "growth_metrics", EmptyDict)
        ratios == Get(financial_data, "ratios", EmptyDict)
        revenue_cagr == Get(growth, "revenue_cagr_3y", NoneNum)
        s1 == IF Truthy(revenue_cagr)
              THEN IF RGt(revenue_cagr, Num(20)) THEN 15
                   ELSE IF RGt(revenue_cagr, Num(10)) THEN 10
                   ELSE IF RGt(revenue_cagr, Num(5)) THEN 5
                   ELSE 0
              ELSE 0
        ebitda_margin == Get(metrics, "ebitda_margin", <<>>)
        s2 == IF ebitda_margin # <<>>
              THEN LET latest_margin == ODLastValue(ebitda_margin)
                   IN  IF RGt(latest_margin, Num(20)) THEN 15
                       ELSE IF RGt(latest_margin, Num(10)) THEN 10
                       ELSE IF RGt(latest_margin, Num(5)) THEN 5
                       ELSE 0
              ELSE 0
        de_ratio == Get(ratios, "debt_to_equity", <<>>)
        s3 == IF de_ratio # <<>>
              THEN LET latest_de == ODLastValue(de_ratio)
                   IN  IF RLt(latest_de, Rat(1, 2)) THEN 10
                       ELSE IF RLt(latest_de, Num(1)) THEN 5
                       ELSE IF RGt(latest_de, Num(2)) THEN -10
                       ELSE 0
              ELSE 0
        score == Num(50 + s1 + s2 + s3)
    IN  RMin(RMax(score, Num(0)), Num(100))

_score_industry(industry_data) == Num(65)

\* _score_risk that takes an error-marked analysis for the highest risk
_score_risk_error_as_zero(risk_analysis) ==
    IF DOMAIN risk_analysis = {}
    THEN Num(50)
    ELSE RSub(Num(100), Get(risk_analysis, "risk_score",
                            IF "error" \in DOMAIN risk_analysis THEN Num(100) ELSE Num(50)))

\* _score_risk without the inversion
_score_risk_not_inverted(risk_analysis) ==
    IF DOMAIN risk_analysis = {}
    THEN Num(50)
    ELSE Get(risk_analysis, "risk_score", Num(50))

\* _score_risk with the operands of the inversion exchanged
_score_risk_operands_swapped(risk_analysis) ==
    IF DOMAIN risk_analysis = {}
    THEN Num(50)
    ELSE RSub(Get(risk_analysis, "risk_score", Num(50)), Num(100))

_score_risk(risk_analysis) ==
    IF DOMAIN risk_analysis = {}
    THEN Num(50)
    ELSE LET risk_score == Get(risk_analysis, "risk_score", Num(50))
         IN  RSub(Num(100), risk_score)

_score_valuation(valuation_data) == Num(60)

calculate_scores(analysis) ==
    << <<"business_score", _score_business(Get(analysis, "business", EmptyDict))>>,
       <<"financial_score", _score_financials(Get(analysis, "financials", EmptyDict))>>,
       <<"industry_score", _score_industry(Get(analysis, "industry", EmptyDict))>>,
       <<"risk_score", _score_risk(Get(analysis, "risks", EmptyDict))>>,
       <<"valuation_score", _score_valuation(Get(analysis, "valuation", EmptyDict))>> >>

\* sum(scores.get(component, 50) * weight for component, weight in self.weights.items())
RECURSIVE WeightedSum(_, _)
WeightedSum(scores, ws) ==
    IF ws = <<>> THEN Num(0)
    ELSE RAdd(RMul(ODGet(scores, Head(ws)[1], Num(50)), Head(ws)[2]),
              WeightedSum(scores, Tail(ws)))

\* calculate_overall_score pairing the weights with the scores by position
calculate_overall_score_positional(scores, fp) ==
    LET term(i) == RMul(scores[i][2], weights[i][2])
    IN  Round1(RAdd(term(1), RAdd(term(2), RAdd(term(3), RAdd(term(4), term(5))))), fp)

calculate_overall_score(scores, fp) == Round1(WeightedSum(scores, weights), fp)

\* determine_stance with strict comparisons
determine_stance_strict(overall_score) ==
    IF RGt(overall_score, Num(thresholds.conservative)) THEN "Conservative - Positive"
    ELSE IF RGt(overall_score, Num(thresholds.neutral)) THEN "Neutral"
    ELSE IF RGt(overall_score, Num(thresholds.aggressive)) THEN "Aggressive - Speculative"
    ELSE "Avoid"

determine_stance(overall_score) ==
    IF RGe(overall_score, Num(thresholds.conservative)) THEN "Conservative - Positive"
    ELSE IF RGe(overall_score, Num(thresholds.neutral)) THEN "Neutral"
    ELSE IF RGe(overall_score, Num(thresholds.aggressive)) THEN "Aggressive - Speculative"
    ELSE "Avoid"

(* A call that may raise returns Ok(value) or Raise(message). *)
Ok(v) == [raised |-> FALSE, value |-> v]
Raise(m) == [raised |-> TRUE, msg |-> m]

\* TemplateBody with the bodies of the two middle stances exchanged
TemplateBodyExchanged(stance) ==
    IF stance = "Conservative - Positive"
    THEN "This IPO shows strong fundamentals across most parameters, suitable for conservative investors seeking quality."
    ELSE IF stance = "Neutral"
    THEN "This IPO carries elevated risks but may offer growth potential. Suitable only for aggressive investors."
    ELSE IF stance = "Aggressive - Speculative"
    THEN "This IPO has a balanced risk-reward profile. Suitable for moderate investors willing to accept some uncertainty."
    ELSE "This IPO has significant concerns. Investors should carefully evaluate before participating."

\* the four closing bodies of _generate_template_explanation
TemplateBody(stance) ==
    IF stance = "Conservative - Positive"
    THEN "This IPO shows strong fundamentals across most parameters, suitable for conservative investors seeking quality."
    ELSE IF stance = "Neutral"
    THEN "This IPO has a balanced risk-reward profile. Suitable for moderate investors willing to accept some uncertainty."
    ELSE IF stance = "Aggressive - Speculative"
    THEN "This IPO carries elevated risks but may offer growth potential. Suitable only for aggressive investors."
    ELSE "This IPO has significant concerns. Investors should carefully evaluate before participating."

\* the f-string of the template: its interpolated values and its body
_generate_template_explanation(scores, stance, fp) ==
    [kind |-> "template",
     overall |-> calculate_overall_score(scores, fp),
     stance |-> stance,
     scores |-> scores,
     body |-> TemplateBody(stance)]

\* generate_explanation that falls back to the template when the generator fails
generate_explanation_template_on_failure(scores, stance, analysis, llm, gen, fp) ==
    IF ~llm \/ gen.raises
    THEN Ok(_generate_template_explanation(scores, stance, fp))
    ELSE Ok([kind |-> "generated", text |-> Strip(gen.text)])

(* generate_explanation: llm is TRUE when self.llm is set; gen is what the  *)
(* generator does on this call (raise gen.msg, or reply gen.text).          *)
generate_explanation(scores, stance, analysis, llm, gen, fp) ==
    IF ~llm
    THEN Ok(_generate_template_explanation(scores, stance, fp))
    ELSE IF gen.raises
         THEN Raise(gen.msg)
         ELSE Ok([kind |-> "generated", text |-> Strip(gen.text)])

\* determine_suitability deciding from the overall score alone
determine_suitability_overall_only(scores, stance, fp) ==
    LET overall == calculate_overall_score(scores, fp)
    IN  IF RGe(overall, Num(75))
        THEN "Conservative investors seeking quality with lower risk"
        ELSE IF RGe(overall, Num(60))
        THEN "Moderate investors comfortable with balanced risk-reward"
        ELSE IF RGe(overall, Num(50))
        THEN "Aggressive investors with high risk tolerance"
        ELSE "Not suitable for most retail investors"

determine_suitability(scores, stance, fp) ==
    LET overall == calculate_overall_score(scores, fp)
        risk_score == ODGet(scores, "risk_score", NoneNum)
    IN  IF RGe(overall, Num(75)) /\ RGe(risk_score, Num(70))
        THEN "Conservative investors seeking quality with lower risk"
        ELSE IF RGe(overall, Num(60))
        THEN "Moderate investors comfortable with balanced risk-reward"
        ELSE IF RGe(overall, Num(50))
        THEN "Aggressive investors with high risk tolerance"
        ELSE "Not suitable for most retail investors"

\* strengths[:4] / concerns[:4]
Top4(list) == SubSeq(list, 1, IF Len(list) < 4 THEN Len(list) ELSE 4)

\* extract_key_strengths with the business check made before the financial one
extract_key_strengths_business_first(analysis, scores) ==
    LET a == IF RGe(ODGet(scores, "financial_score", NoneNum), Num(75))
             THEN <<"Strong financial performance and growth">> ELSE <<>>
        b == IF RGe(ODGet(scores, "business_score", NoneNum), Num(75))
             THEN <<"Robust business model and market position">> ELSE <<>>
        c == IF RGe(ODGet(scores, "risk_score", NoneNum), Num(75))
             THEN <<"Manageable risk profile">> ELSE <<>>
        strengths == b \o a \o c
    IN  Top4(IF strengths = <<>>
             THEN <<"Moderate fundamentals across parameters">>
             ELSE strengths)

extract_key_strengths(analysis, scores) ==
    LET a == IF RGe(ODGet(scores, "financial_score", NoneNum), Num(75))
             THEN <<"Strong financial performance and growth">> ELSE <<>>
        b == IF RGe(ODGet(scores, "business_score", NoneNum), Num(75))
             THEN <<"Robust business model and market position">> ELSE <<>>
        c == IF RGe(ODGet(scores, "risk_score", NoneNum), Num(75))
             THEN <<"Manageable risk profile">> ELSE <<>>
        strengths == a \o b \o c
    IN  Top4(IF strengths = <<>>
             THEN <<"Moderate fundamentals across parameters">>
             ELSE strengths)

extract_key_concerns(analysis, scores) ==
    LET a == IF RLt(ODGet(scores, "financial_score", NoneNum), Num(50))
             THEN <<"Weak financial performance or declining trends">> ELSE <<>>
        b == IF RLt(ODGet(scores, "risk_score", NoneNum), Num(50))
             THEN <<"Elevated risk factors">> ELSE <<>>
        c == IF RLt(ODGet(scores, "valuation_score", NoneNum), Num(40))
             THEN <<"Potentially expensive valuation">> ELSE <<>>
        risk_summary == IF "risks" \in DOMAIN analysis
                        THEN Get(analysis["risks"], "summary", <<>>)
                        ELSE <<>>
        d == IF risk_summary # <<>> /\ StrLen(risk_summary) > 50
             THEN <<"Multiple material risks identified">> ELSE <<>>
        concerns == a \o b \o c \o d
    IN  Top4(IF concerns = <<>>
             THEN <<"Standard IPO investment risks apply">>
             ELSE concerns)

(* RecommendationEngine.generate_recommendation: the only call that can     *)
(* raise is the generator call inside generate_explanation.                 *)
EngineRecommendation(analysis_results, llm, gen, fp) ==
    LET scores == calculate_scores(analysis_results)
        overall_score == calculate_overall_score(scores, fp)
        stance == determine_stance(overall_score)
        explanation == generate_explanation(scores, stance, analysis_results,
                                            llm, gen, fp)
    IN  IF explanation.raised
        THEN explanation
        ELSE Ok([scores |-> scores,
                 overall_score |-> overall_score,
                 stance |-> stance,
                 explanation |-> explanation.value,
                 suitability |-> determine_suitability(scores, stance, fp),
                 key_strengths |-> extract_key_strengths(analysis_results, scores),
                 key_concerns |-> extract_key_concerns(analysis_results, scores)])

----------------------------------------------------------------------------
(* risk_analyzer.py: RiskAnalyzer.  A text is a sequence of word, space and *)
(* punctuation tokens; a keyword is the token sequence of its words, and    *)
(* "keyword in text" is the occurrence of that sequence in the text.        *)

\* str.lower() on one token
LowerToken(w) ==
    CASE w = "Litigation" -> "litigation"
      [] w = "Material" -> "material"
      [] w = "Debt" -> "debt"
      [] w = "Significant" -> "significant"
      [] w = "Competition" -> "competition"
      [] w = "Major" -> "major"
      [] w = "Customers" -> "customers"
      [] w = "Weather" -> "weather"
      [] w = "Revenue" -> "revenue"
      [] w = "Total" -> "total"
      [] w = "EBITDA" -> "ebitda"
      [] w = "PAT" -> "pat"
      [] w = "Particulars" -> "particulars"
      [] w = "Balance" -> "balance"
      [] w = "Sheet" -> "sheet"
      [] w = "Income" -> "income"
      [] w = "Statement" -> "statement"
      [] w = "Assets" -> "assets"
      [] w = "Equity" -> "equity"
      [] w = "Cash" -> "cash"
      [] w = "FY" -> "fy"
      [] w = "Mar" -> "mar"
      [] w = "Q" -> "q"
      [] OTHER -> w

Lower(text) == [i \in DOMAIN text |-> LowerToken(text[i])]

(* Words of the vocabulary that hold another word: <<k, w>> in WordInfix     *)
(* when k occurs inside w, in WordPrefix when w begins with k.              *)
WordInfix == {<<"material", "immaterial">>, <<"debt", "indebtedness">>}
WordPrefix == {<<"affect", "affected">>, <<"ebit", "ebitda">>}

\* the j-th word of keyword occurs at token t of a text
WordAt(keyword, j, t) ==
    LET k == keyword[j]
    IN  \/ k = t
        \/ Len(keyword) = 1 /\ <<k, t>> \in WordInfix \cup WordPrefix
        \/ Len(keyword) > 1 /\ j = Len(keyword) /\ <<k, t>> \in WordPrefix

\* keyword in text
Contains(text, keyword) ==
    \E i \in 1..(Len(text) - Len(keyword) + 1) :
        \A j \in 1..Len(keyword) : WordAt(keyword, j, text[i + j - 1])

\* sum(1 for keyword in keywords if keyword in text)
RECURSIVE CountIn(_, _)
CountIn(keywords, text) ==
    IF keywords = <<>> THEN 0
    ELSE (IF Contains(text, Head(keywords)) THEN 1 ELSE 0)
         + CountIn(Tail(keywords), text)

\* self.risk_categories, in declaration order
risk_categories ==
    << <<"business_risk",
         << <<"business", " ", "model">>, <<"operations">>, <<"product">> >> >>,
       <<"financial_risk",
         << <<"debt">>, <<"cash", " ", "flow">>, <<"profitability">>, <<"liquidity">> >> >>,
       <<"operational_risk",
         << <<"supply", " ", "chain">>, <<"manufacturing">>, <<"capacity">> >> >>,
       <<"regulatory_risk",
         << <<"government">>, <<"regulation">>, <<"compliance">>, <<"policy">> >> >>,
       <<"legal_risk",
         << <<"litigation">>, <<"legal", " ", "proceedings">>, <<"lawsuit">> >> >>,
       <<"market_risk",
         << <<"competition">>, <<"market", " ", "share">>, <<"pricing">> >> >>,
       <<"promoter_risk",
         << <<"promoter">>, <<"management">>, <<"related", " ", "party">> >> >>,
       <<"customer_concentration_risk",
         << <<"customer", " ", "concentration">>, <<"major", " ", "customers">> >> >> >>

CategoryNames == [i \in DOMAIN risk_categories |-> risk_categories[i][1]] \o <<"other">>

\* title + ' ' + description, lower-cased
RiskText(risk) == Lower(risk.title \o <<" ">> \o risk.description)

\* _classify_single_risk with a tie going to the category declared last
_classify_single_risk_last_declared(risk) ==
    LET risk_text == RiskText(risk)
        score(i) == CountIn(risk_categories[i][2], risk_text)
        scored == {i \in DOMAIN risk_categories : score(i) > 0}
    IN  IF scored # {}
        THEN LET best == CHOOSE i \in scored :
                             /\ \A j \in scored : score(j) <= score(i)
                             /\ \A j \in scored : j > i => score(j) < score(i)
             IN  risk_categories[best][1]
        ELSE "other"

(* max(category_scores, key=category_scores.get) over the categories with   *)
(* a positive score: the first category, in declaration order, whose score  *)
(* no other category exceeds.                                               *)
_classify_single_risk(risk) ==
    LET risk_text == RiskText(risk)
        score(i) == CountIn(risk_categories[i][2], risk_text)
        scored == {i \in DOMAIN risk_categories : score(i) > 0}
    IN  IF scored # {}
        THEN LET best == CHOOSE i \in scored :
                             /\ \A j \in scored : score(j) <= score(i)
                             /\ \A j \in scored : j < i => score(j) < score(i)
             IN  risk_categories[best][1]
        ELSE "other"

high_indicators ==
    << <<"significant">>, <<"material">>, <<"substantial">>, <<"major">>,
       <<"critical">>, <<"severe">>, <<"adversely", " ", "affect">>, <<"inability">>,
       <<"failure">>, <<"default">>, <<"litigation">>, <<"regulatory", " ", "action">> >>

medium_indicators ==
    << <<"may", " ", "affect">>, <<"could", " ", "impact">>, <<"potential">>, <<"possible">>,
       <<"risk", " ", "of">>, <<"uncertainty">>, <<"dependent">>, <<"reliant">> >>

\* _assess_risk_severity with one medium indicator enough for Medium
_assess_risk_severity_one_medium(risk) ==
    LET text == RiskText(risk)
        high_count == CountIn(high_indicators, text)
        medium_count == CountIn(medium_indicators, text)
    IN  IF high_count >= 2 THEN "High"
        ELSE IF high_count >= 1 \/ medium_count >= 1 THEN "Medium"
        ELSE "Low"

_assess_risk_severity(risk) ==
    LET text == RiskText(risk)
        high_count == CountIn(high_indicators, text)
        medium_count == CountIn(medium_indicators, text)
    IN  IF high_count >= 2 THEN "High"
        ELSE IF high_count >= 1 \/ medium_count >= 2 THEN "Medium"
        ELSE "Low"

NoneStr == "None"

(* _parse_risk_response.  In a generated reply every digit and every        *)
(* punctuation mark is a token of its own, so that str.strip(chars) and     *)
(* str.split(':', 1) act on tokens as they act on characters.               *)

Digits == {"0", "1", "2", "3", "4", "5", "6", "7", "8", "9"}

\* the characters of '0123456789.-) '
NumberingChars == Digits \cup {".", "-", ")", " "}

\* str.lstrip(chars)
RECURSIVE LStripChars(_, _)
LStripChars(text, chars) ==
    IF text # <<>> /\ Head(text) \in chars THEN LStripChars(Tail(text), chars) ELSE text

\* str.rstrip(chars)
RECURSIVE RStripChars(_, _)
RStripChars(text, chars) ==
    IF text # <<>> /\ text[Len(text)] \in chars
    THEN RStripChars(SubSeq(text, 1, Len(text) - 1), chars)
    ELSE text

\* str.strip(chars)
StripChars(text, chars) == RStripChars(LStripChars(text, chars), chars)

\* the position of the first token t of text, 0 when there is none
RECURSIVE IndexOf(_, _, _)
IndexOf(text, t, i) ==
    IF i > Len(text) THEN 0
    ELSE IF text[i] = t THEN i
    ELSE IndexOf(text, t, i + 1)

\* str.split('\n')
RECURSIVE SplitLines(_)
SplitLines(text) ==
    IF IndexOf(text, "\n", 1) = 0 THEN <<text>>
    ELSE <<SubSeq(text, 1, IndexOf(text, "\n", 1) - 1)>>
         \o SplitLines(SubSeq(text, IndexOf(text, "\n", 1) + 1, Len(text)))

\* the record of a stripped line that is a numbered or bulleted item
ParsedLine(line, colon) ==
    [title |-> IF colon > 0
               THEN StripChars(SubSeq(line, 1, colon - 1), NumberingChars)
               ELSE StripChars(line, NumberingChars),
     description |-> IF colon > 0
                     THEN Strip(SubSeq(line, colon + 1, Len(line)))
                     ELSE <<>>,
     category |-> NoneStr,
     severity |-> NoneStr]

\* the body of the loop of _parse_risk_response on one stripped line
ParsedItem(line) ==
    IF line = <<>> THEN <<>>
    ELSE IF Head(line) \in Digits \/ Head(line) = "-"
    THEN <<ParsedLine(line, IndexOf(line, ":", 1))>>
    ELSE <<>>

RECURSIVE ParsedItems(_)
ParsedItems(lines) ==
    IF lines = <<>> THEN <<>>
    ELSE ParsedItem(Strip(Head(lines))) \o ParsedItems(Tail(lines))

_parse_risk_response(response) == ParsedItems(SplitLines(response))

\* the indices, from i on and in order, of the records of heap in category c
RECURSIVE Bucket(_, _, _)
Bucket(heap, c, i) ==
    IF i > Len(heap) THEN <<>>
    ELSE (IF heap[i].category = c THEN <<i>> ELSE <<>>) \o Bucket(heap, c, i + 1)

(* classify_risks: every record gets its category written in place and is   *)
(* appended to the bucket of that category.  The records are held by        *)
(* reference: heap is the list of records, a bucket lists indices into it.  *)
classify_risks(risks) ==
    LET heap == [i \in DOMAIN risks |->
                    [risks[i] EXCEPT !.category = _classify_single_risk(risks[i])]]
        bucket(c) == Bucket(heap, c, 1)
    IN  [heap |-> heap,
         classified |-> [c \in {CategoryNames[i] : i \in DOMAIN CategoryNames} |-> bucket(c)]]

(* assess_severity: for every non-empty bucket, every record gets its       *)
(* severity written in place, and the bucket is summarised.                 *)
assess_severity(classified, heap0) ==
    LET heap == [i \in DOMAIN heap0 |->
                    [heap0[i] EXCEPT !.severity = _assess_risk_severity(heap0[i])]]
        nonempty == {c \in DOMAIN classified : classified[c] # <<>>}
        n(c, sev) == Cardinality({j \in DOMAIN classified[c] :
                                     heap[classified[c][j]].severity = sev})
    IN  [heap |-> heap,
         severity_analysis |->
            [c \in nonempty |->
                [risks |-> classified[c],
                 count |-> Len(classified[c]),
                 severity_breakdown |->
                    [high |-> n(c, "High"), medium |-> n(c, "Medium"), low |-> n(c, "Low")]]]]

\* the number of records of a list with the given severity
SeverityCount(risks, severity) ==
    Cardinality({i \in DOMAIN risks : risks[i].severity = severity})

\* 100 * (3h + 2m + l) / (3n), and 0 when there is no record
AggregateRisk(risks) ==
    LET h == SeverityCount(risks, "High")
        m == SeverityCount(risks, "Medium")
        l == SeverityCount(risks, "Low")
    IN  IF Len(risks) = 0 THEN Num(0)
        ELSE Rat(100 * (3 * h + 2 * m + l), 3 * Len(risks))

\* SeverityWeight on a scale from 0: High 2, Medium 1, Low 0
SeverityWeightFromZero(severity) ==
    IF severity = "High" THEN 2 ELSE IF severity = "Medium" THEN 1 ELSE 0

\* weights.get(severity, 1) of get_risk_score
SeverityWeight(severity) ==
    IF severity = "High" THEN 3 ELSE IF severity = "Medium" THEN 2 ELSE 1

\* BucketWeight that weighs the High records only
RECURSIVE BucketWeightHighOnly(_)
BucketWeightHighOnly(risks) ==
    IF risks = <<>> THEN 0
    ELSE (IF Head(risks).severity = "High" THEN 3 ELSE 0) + BucketWeightHighOnly(Tail(risks))

\* the inner loop of get_risk_score: the weights of one bucket's records
RECURSIVE BucketWeight(_)
BucketWeight(risks) ==
    IF risks = <<>> THEN 0
    ELSE SeverityWeight(Head(risks).severity) + BucketWeight(Tail(risks))

\* the outer loop of get_risk_score: <<weighted_sum, total_risks>> over cats
RECURSIVE RiskTotals(_, _)
RiskTotals(severity_analysis, cats) ==
    IF cats = {} THEN <<0, 0>>
    ELSE LET c == CHOOSE x \in cats : TRUE
             rest == RiskTotals(severity_analysis, cats \ {c})
         IN  <<rest[1] + BucketWeight(severity_analysis[c].risks),
               rest[2] + Len(severity_analysis[c].risks)>>

(* get_risk_score over a severity analysis whose buckets hold the records   *)
(* themselves.                                                              *)
get_risk_score(severity_analysis) ==
    LET totals == RiskTotals(severity_analysis, DOMAIN severity_analysis)
        weighted_sum == totals[1]
        total_risks == totals[2]
    IN  IF total_risks = 0 THEN Num(0)
        ELSE RMin(RMul(Rat(weighted_sum, total_risks * 3), Num(100)), Num(100))

\* the generator's reply to one generate() call: it raises msg or returns text
GenBehaviours ==
    {[raises |-> TRUE, msg |-> "generation failed", text |-> <<>>],
     [raises |-> FALSE, msg |-> "", text |-> <<" ", "Brief reply.", "\n">>],
     [raises |-> FALSE, msg |-> "",
      text |-> <<"A long reply that runs to more than fifty characters in all.">>]}

\* calling a method on a collaborator that is None
NoneTypeError == "'NoneType' object has no attribute"

(* generate_risk_summary: the generator is asked only when some record is   *)
(* High.                                                                    *)
generate_risk_summary(severity_analysis, llm, gen) ==
    LET some_high == \E c \in DOMAIN severity_analysis :
                        \E j \in DOMAIN severity_analysis[c].risks :
                            severity_analysis[c].risks[j].severity = "High"
    IN  IF ~some_high
        THEN Ok(<<"No major risks identified in prospectus.">>)
        ELSE IF ~llm THEN Raise(NoneTypeError)
        ELSE IF gen.raises THEN Raise(gen.msg)
        ELSE Ok(Strip(gen.text))

\* the records, as they are now, that a bucket's indices refer to
Deref(heap, ids) == [j \in DOMAIN ids |-> heap[ids[j]]]

\* the severity analysis a, its buckets holding the records themselves
SeverityAnalysis(a) ==
    [cat \in DOMAIN a.severity_analysis |->
        [a.severity_analysis[cat] EXCEPT !.risks = Deref(a.heap, @)]]

\* the mapping analyze_all_risks returns, unless the summary raised
RiskAnalysis(risks, classified, a, summary) ==
    IF summary.raised THEN summary
    ELSE Ok([all_risks |-> a.heap,
             classified_risks |->
                [cat \in DOMAIN classified |-> Deref(a.heap, classified[cat])],
             severity_analysis |-> SeverityAnalysis(a),
             summary |-> summary.value,
             total_risks |-> Len(risks)])

\* steps 3 and 4 of analyze_all_risks: severity, then the summary
AssessedRisks(risks, c, a, llm, gen) ==
    RiskAnalysis(risks, c.classified, a,
                 generate_risk_summary(SeverityAnalysis(a), llm, gen))

\* step 2 of analyze_all_risks onwards, c being what classify_risks returned
ClassifiedRisks(risks, c, llm, gen) ==
    AssessedRisks(risks, c, assess_severity(c.classified, c.heap), llm, gen)

(* analyze_all_risks on the records risks that extract_risk_factors         *)
(* returned.  The buckets of the returned mapping show the records as they  *)
(* are when the call returns.                                               *)
analyze_all_risks(risks, llm, gen) ==
    ClassifiedRisks(risks, classify_risks(risks), llm, gen)

----------------------------------------------------------------------------
(* table_extractor.py: TableExtractor.  A DataFrame is [columns |-> the     *)
(* headers, rows |-> the rows]; a header and a label are strs, row[1] is    *)
(* the label of a row and row[j] its cell under columns[j], a number or     *)
(* NaN.  In a header the marker FY is one token and every digit and         *)
(* punctuation mark is a token of its own.                                  *)

\* Python's None where a dict, a frame or a list is expected
None == [None |-> TRUE]

\* a cell for which pd.notna is false
NaN == NoneNum

\* the value _extract_year returns for no year: None
NoYear == 0

\* the characters that are not word characters (\w) of a regular expression
NonWordChars == {" ", "\n", ".", "-", "(", ")", ":", ",", "/"}

\* \b at position i of s: a word character on exactly one side
WordBoundary(s, i) ==
    (i > 1 /\ s[i - 1] \notin NonWordChars) # (i <= Len(s) /\ s[i] \notin NonWordChars)

IsDigitAt(s, i) == i <= Len(s) /\ s[i] \in Digits

\* \s* from position i: the number of white-space tokens matched
RECURSIVE SpacesFrom(_, _)
SpacesFrom(s, i) ==
    IF i <= Len(s) /\ s[i] \in Whitespace THEN 1 + SpacesFrom(s, i + 1) ELSE 0

\* \b20\d{2}\b at position i: the position after the match, 0 for no match
FourDigitYearAt(s, i) ==
    IF /\ WordBoundary(s, i)
       /\ s[i] = "2"
       /\ i + 1 <= Len(s) /\ s[i + 1] = "0"
       /\ IsDigitAt(s, i + 2)
       /\ IsDigitAt(s, i + 3)
       /\ WordBoundary(s, i + 4)
    THEN i + 4
    ELSE 0

\* FY\s*\d{2}\b whose digits begin at position d: the position after the match
FiscalDigitsAt(s, d) ==
    IF IsDigitAt(s, d) /\ IsDigitAt(s, d + 1) /\ WordBoundary(s, d + 2) THEN d + 2 ELSE 0

\* \bFY\s*\d{2}\b at position i: the position after the match, 0 for no match
FiscalYearAt(s, i) ==
    IF WordBoundary(s, i) /\ s[i] = "FY"
    THEN FiscalDigitsAt(s, i + 1 + SpacesFrom(s, i + 1))
    ELSE 0

\* year_pattern.search(s) from position i on: <<start, end>> of group 1, <<0, 0>> for None
RECURSIVE YearSearch(_, _)
YearSearch(s, i) ==
    IF i > Len(s) THEN <<0, 0>>
    ELSE IF FourDigitYearAt(s, i) > 0 THEN <<i, FourDigitYearAt(s, i)>>
    ELSE IF FiscalYearAt(s, i) > 0 THEN <<i, FiscalYearAt(s, i)>>
    ELSE YearSearch(s, i + 1)

DigitValue(t) ==
    CASE t = "0" -> 0 [] t = "1" -> 1 [] t = "2" -> 2 [] t = "3" -> 3 [] t = "4" -> 4
      [] t = "5" -> 5 [] t = "6" -> 6 [] t = "7" -> 7 [] t = "8" -> 8 [] t = "9" -> 9

\* int(digits)
RECURSIVE IntOf(_)
IntOf(digits) ==
    IF digits = <<>> THEN 0
    ELSE 10 * IntOf(SubSeq(digits, 1, Len(digits) - 1)) + DigitValue(digits[Len(digits)])

\* re.search(r'\d{2}', year_str) from position i on: the two digits matched
RECURSIVE TwoDigits(_, _)
TwoDigits(year_str, i) ==
    IF IsDigitAt(year_str, i) /\ IsDigitAt(year_str, i + 1)
    THEN SubSeq(year_str, i, i + 1)
    ELSE TwoDigits(year_str, i + 1)

\* the year of group 1 of a match
YearOf(year_str) ==
    IF \E i \in DOMAIN year_str : year_str[i] = "FY"
    THEN 2000 + IntOf(TwoDigits(year_str, 1))
    ELSE IntOf(year_str)

\* the year of the match <<start, end>> found in column_name
YearOfMatch(column_name, match) ==
    IF match[1] = 0 THEN NoYear
    ELSE YearOf(SubSeq(column_name, match[1], match[2] - 1))

_extract_year(column_name) == YearOfMatch(column_name, YearSearch(column_name, 1))

\* metric_patterns, in declaration order
metric_patterns ==
    << <<"revenue", << <<"revenue">>, <<"total", " ", "revenue">>, <<"net", " ", "revenue">>,
                       <<"sales">>, <<"total", " ", "income">> >> >>,
       <<"ebitda", << <<"ebitda">>, <<"earnings", " ", "before", " ", "interest">> >> >>,
       <<"ebit", << <<"ebit">>, <<"operating", " ", "profit">> >> >>,
       <<"pat", << <<"pat">>, <<"profit", " ", "after", " ", "tax">>, <<"net", " ", "profit">> >> >>,
       <<"total_assets", << <<"total", " ", "assets">> >> >>,
       <<"total_liabilities", << <<"total", " ", "liabilities">> >> >>,
       <<"equity", << <<"equity">>, <<"shareholders", " ", "equity">>,
                      <<"total", " ", "equity">> >> >>,
       <<"total_debt", << <<"total", " ", "debt">>, <<"borrowings">> >> >>,
       <<"cash", << <<"cash">>, <<"cash", " ", "and", " ", "cash", " ", "equivalents">> >> >> >>

\* metric_patterns.get(metric_name, [metric_name])
PatternsOf(metric_name) == ODGet(metric_patterns, metric_name, << <<metric_name>> >>)

\* od[k] = v on an insertion-ordered dict
ODSet(od, k, v) ==
    IF k \in ODKeys(od)
    THEN [i \in DOMAIN od |-> IF od[i][1] = k THEN <<k, v>> ELSE od[i]]
    ELSE Append(od, <<k, v>>)

\* if year and pd.notna(row[col]): timeseries[year] = float(row[col])
SeriesStep(timeseries, year, cell) ==
    IF year # NoYear /\ cell # NaN THEN ODSet(timeseries, year, cell) ELSE timeseries

\* the timeseries of a row over the columns 2..n
RECURSIVE RowSeries(_, _, _)
RowSeries(columns, row, n) ==
    IF n < 2 THEN <<>>
    ELSE SeriesStep(RowSeries(columns, row, n - 1), _extract_year(columns[n]), row[n])

\* the two loops of extract_metric_timeseries from row idx and pattern p on
RECURSIVE ScanRows(_, _, _, _)
ScanRows(df, patterns, idx, p) ==
    IF idx > Len(df.rows) THEN <<>>
    ELSE IF p > Len(patterns) THEN ScanRows(df, patterns, idx + 1, 1)
    ELSE IF /\ Contains(Lower(df.rows[idx][1]), patterns[p])
            /\ RowSeries(df.columns, df.rows[idx], Len(df.columns)) # <<>>
    THEN RowSeries(df.columns, df.rows[idx], Len(df.columns))
    ELSE ScanRows(df, patterns, idx, p + 1)

extract_metric_timeseries(df, metric_name) ==
    IF "None" \in DOMAIN df THEN <<>>
    ELSE IF df.rows = <<>> \/ df.columns = <<>> THEN <<>>
    ELSE ScanRows(df, PatternsOf(metric_name), 1, 1)

\* ' '.join(texts)
RECURSIVE JoinSpace(_)
JoinSpace(texts) ==
    IF texts = <<>> THEN <<>>
    ELSE IF Len(texts) = 1 THEN Head(texts)
    ELSE Head(texts) \o <<" ">> \o JoinSpace(Tail(texts))

\* any(word in text for word in keywords)
AnyIn(keywords, text) == \E i \in DOMAIN keywords : Contains(text, keywords[i])

profit_loss_keywords ==
    << <<"revenue">>, <<"income", " ", "statement">>, <<"profit">>, <<"expenditure">> >>
balance_sheet_keywords ==
    << <<"balance", " ", "sheet">>, <<"assets">>, <<"liabilities">>, <<"equity">> >>
cash_flow_keywords ==
    << <<"cash", " ", "flow">>, <<"operating", " ", "activities">>,
       <<"investing", " ", "activities">> >>

\* header_text + ' ' + first_col_text
CombinedText(df) ==
    JoinSpace([i \in DOMAIN df.columns |-> Lower(df.columns[i])])
    \o <<" ">> \o JoinSpace([i \in DOMAIN df.rows |-> Lower(df.rows[i][1])])

\* StatementTypeOf with the balance-sheet keywords tried first
StatementTypeOfBalanceFirst(combined_text) ==
    IF AnyIn(balance_sheet_keywords, combined_text) THEN "balance_sheet"
    ELSE IF AnyIn(profit_loss_keywords, combined_text) THEN "profit_loss"
    ELSE IF AnyIn(cash_flow_keywords, combined_text) THEN "cash_flow"
    ELSE NoneStr

\* the decision of _identify_statement_type on the combined text
StatementTypeOf(combined_text) ==
    IF AnyIn(profit_loss_keywords, combined_text) THEN "profit_loss"
    ELSE IF AnyIn(balance_sheet_keywords, combined_text) THEN "balance_sheet"
    ELSE IF AnyIn(cash_flow_keywords, combined_text) THEN "cash_flow"
    ELSE NoneStr

_identify_statement_type(df) == StatementTypeOf(CombinedText(df))

\* a cell that holds text pd.to_numeric cannot convert
TextCell == <<1, 0>>

\* pd.to_numeric(cell, errors='coerce')
ToNumeric(cell) == IF cell[2] = 0 THEN NaN ELSE cell

\* year_cols: the positions of the value columns whose header holds a year
YearCols(columns) == {j \in 2..Len(columns) : YearSearch(columns[j], 1)[1] # 0}

\* the positions kept by "if year_cols: df = df[[df.columns[0]] + year_cols]"
KeptCols(columns) ==
    IF YearCols(columns) # {} THEN {1} \cup YearCols(columns) ELSE DOMAIN columns

\* the entries of seq at the positions of keep among 1..n, in order
RECURSIVE Project(_, _, _)
Project(seq, keep, n) ==
    IF n = 0 THEN <<>>
    ELSE Project(seq, keep, n - 1) \o (IF n \in keep THEN <<seq[n]>> ELSE <<>>)

\* a row with its value cells converted and its label stripped
CleanRow(row) == [j \in DOMAIN row |-> IF j = 1 THEN Strip(row[1]) ELSE ToNumeric(row[j])]

\* dropna(how='all', subset=df.columns[1:]) keeps the row
HasValue(row) == \E j \in 2..Len(row) : row[j] # NaN

\* the rows of the frame over the kept columns, converted, without empty rows
ProcessedRows(rows, keep) ==
    LET Kept(row) == HasValue(row)
    IN  SelectSeq([i \in DOMAIN rows |-> CleanRow(Project(rows[i], keep, Len(rows[i])))], Kept)

_process_financial_table(df) ==
    [columns |-> Project(df.columns, KeptCols(df.columns), Len(df.columns)),
     rows |-> ProcessedRows(df.rows, KeptCols(df.columns))]

\* extract_financial_statements whose later tables replace the earlier ones
StatementsStepLastWins(statements, table, statement_type) ==
    IF table.type # "financial" THEN statements
    ELSE IF statement_type # NoneStr
    THEN [statements EXCEPT ![statement_type] = _process_financial_table(table.data)]
    ELSE statements

\* one iteration of the loop of extract_financial_statements
StatementsStep(statements, table, statement_type) ==
    IF table.type # "financial" THEN statements
    ELSE IF statement_type # NoneStr /\ statements[statement_type] = None
    THEN [statements EXCEPT ![statement_type] = _process_financial_table(table.data)]
    ELSE statements

\* the loop over the first n tables
RECURSIVE StatementsAfter(_, _)
StatementsAfter(tables, n) ==
    IF n = 0 THEN [profit_loss |-> None, balance_sheet |-> None, cash_flow |-> None]
    ELSE StatementsStep(StatementsAfter(tables, n - 1), tables[n],
                        IF tables[n].type = "financial"
                        THEN _identify_statement_type(tables[n].data) ELSE NoneStr)

extract_financial_statements(tables) == StatementsAfter(tables, Len(tables))

\* financial_data[metric] = extract_metric_timeseries(df, metric) for the metrics
RECURSIVE MetricsOf(_, _)
MetricsOf(df, metrics) ==
    IF metrics = <<>> THEN <<>>
    ELSE << <<Head(metrics), extract_metric_timeseries(df, Head(metrics))>> >>
         \o MetricsOf(df, Tail(metrics))

build_financial_data_dict(statements) ==
    (IF statements.profit_loss # None
     THEN MetricsOf(statements.profit_loss, <<"revenue", "ebitda", "ebit", "pat">>)
     ELSE <<>>)
    \o (IF statements.balance_sheet # None
        THEN MetricsOf(statements.balance_sheet,
                       <<"total_assets", "total_liabilities", "equity", "total_debt", "cash">>)
        ELSE <<>>)
    \o (IF statements.cash_flow # None
        THEN << <<"operating_cash_flow", <<>> >>, <<"investing_cash_flow", <<>> >>,
                <<"financing_cash_flow", <<>> >> >>
        ELSE <<>>)
    \o << <<"current_assets", <<>> >>, <<"current_liabilities", <<>> >> >>

----------------------------------------------------------------------------
(* orchestrator.py: IPOAnalysisOrchestrator *)


\* d[k] = v on a dict modelled as a function
Put(d, k, v) == [x \in DOMAIN d \cup {k} |-> IF x = k THEN v ELSE d[x]]

\* "except Exception as e: return {'error': str(e)}"
ErrorResult(msg) == [error |-> msg]

\* the stage methods in the order run_complete_analysis calls them
StageOrder ==
    <<"process_pdf", "build_vector_store", "analyze_business",
      "analyze_financials", "analyze_risks", "analyze_ipo_details",
      "generate_recommendation">>

\* ResultKey with the recommendation stored under the key of the risk stage
ResultKeyReused(stage) ==
    CASE stage = "analyze_business" -> "business"
      [] stage = "analyze_financials" -> "financials"
      [] stage = "analyze_risks" -> "risks"
      [] stage = "analyze_ipo_details" -> "ipo_details"
      [] stage = "generate_recommendation" -> "risks"

\* the key of self.results a stage method's return value is stored under
ResultKey(stage) ==
    CASE stage = "analyze_business" -> "business"
      [] stage = "analyze_financials" -> "financials"
      [] stage = "analyze_risks" -> "risks"
      [] stage = "analyze_ipo_details" -> "ipo_details"
      [] stage = "generate_recommendation" -> "recommendation"

\* NextStep with the financial and the risk stage exchanged
NextStepExchanged(stage) ==
    CASE stage = "process_pdf" -> "build_vector_store"
      [] stage = "build_vector_store" -> "analyze_business"
      [] stage = "analyze_business" -> "analyze_risks"
      [] stage = "analyze_risks" -> "analyze_financials"
      [] stage = "analyze_financials" -> "analyze_ipo_details"
      [] stage = "analyze_ipo_details" -> "generate_recommendation"
      [] stage = "generate_recommendation" -> "save_results"

\* the statement of run_complete_analysis that follows a stage's statement
NextStep(stage) ==
    CASE stage = "process_pdf" -> "build_vector_store"
      [] stage = "build_vector_store" -> "analyze_business"
      [] stage = "analyze_business" -> "analyze_financials"
      [] stage = "analyze_financials" -> "analyze_risks"
      [] stage = "analyze_risks" -> "analyze_ipo_details"
      [] stage = "analyze_ipo_details" -> "generate_recommendation"
      [] stage = "generate_recommendation" -> "save_results"

\* the call and the return of one stage method
Ran(stage) == events \o << <<"call", stage>>, <<"return", stage>> >>

\* "if not x" on a dict or None
Falsy(x) == DOMAIN x = {} \/ x = None

\* a profit-and-loss table as the PDF parser hands it over
ParsedIncomeTable ==
    [type |-> "financial",
     data |-> [columns |-> << <<"Particulars">>, <<"Notes">>, <<"FY", "2", "2">>,
                              <<"FY", "2", "3">> >>,
               rows |-> << <<<<"Revenue", " ">>, TextCell, Num(900), Num(1000)>>,
                           <<<<"EBITDA">>, NaN, Num(180), Num(300)>> >>]]

(* What the collaborators may do.  The PDF parser returns the extracted     *)
(* data or raises; a document carries no table, a table that is not         *)
(* financial, or a profit-and-loss table.                                   *)
PdfOutcomes ==
    {Raise("cannot open PDF"),
     Ok(EmptyDict),
     Ok([tables |-> <<>>]),
     Ok([text |-> <<"page one">>, tables |-> <<>>]),
     Ok([text |-> <<"page one">>, tables |-> <<[type |-> "other", data |-> "t1"]>>]),
     Ok([text |-> <<"page one">>, tables |-> <<ParsedIncomeTable>>])}

\* the items of the generator's reply to _extract_individual_risks
RiskItems ==
    {<<"1", ".", " ", "Litigation", ":", " ", "Material", " ", "litigation", " ", "pending">>,
     <<"2", ".", " ", "Debt", ":", " ", "Significant", " ", "debt">>,
     <<"-", " ", "Weather">>}

\* '\n'.join(lines)
RECURSIVE JoinLines(_)
JoinLines(lines) ==
    IF lines = <<>> THEN <<>>
    ELSE IF Len(lines) = 1 THEN Head(lines)
    ELSE Head(lines) \o <<"\n">> \o JoinLines(Tail(lines))

\* replies of up to MaxRisks items, one on a line
RiskResponses == {JoinLines(ls) : ls \in UNION {[1..n -> RiskItems] : n \in 0..MaxRisks}}

\* what _extract_individual_risks returns: the records parsed from the reply
RiskLists == {_parse_risk_response(r) : r \in RiskResponses}

\* year -> value series, in insertion order
SeriesLow == << <<2022, Num(30)>>, <<2023, Num(3)>> >>
SeriesHigh == << <<2022, Num(3)>>, <<2023, Num(30)>> >>
RatioLow == << <<2023, Rat(3, 10)>> >>
RatioHigh == << <<2023, Rat(5, 2)>> >>

\* FinancialCalculator.calculate_all_metrics: {basic_metrics, growth_metrics, ratios}
MetricsOutputs ==
    {[basic_metrics |-> [ebitda_margin |-> m],
      growth_metrics |-> [revenue_cagr_3y |-> g],
      ratios |-> [debt_to_equity |-> r]] :
        m \in {<<>>, SeriesHigh}, g \in {NoneNum, Num(25)}, r \in {<<>>, RatioLow, RatioHigh}}

process_pdf(parsed) == IF parsed.raised THEN None ELSE parsed.value

build_vector_store(data, comps, collaborator_raises) ==
    IF "text" \notin DOMAIN data THEN FALSE
    ELSE IF ~comps.embedder \/ ~comps.vector_store THEN FALSE
    ELSE ~collaborator_raises

\* the try body of analyze_business
BusinessBody(comps, env) ==
    IF ~comps.embedder \/ ~comps.vector_store \/ ~comps.llm THEN Raise(NoneTypeError)
    ELSE IF env.raises THEN Raise(env.msg)
    ELSE LET part(name) == [analysis |-> Strip(env.text), num_sources |-> env.num_sources]
         IN  Ok([business_model |-> part("business_model"),
                 market_position |-> part("market_position"),
                 operations |-> part("operations"),
                 customers |-> part("customers"),
                 summary |-> <<"Executive summary of business analysis">>])

\* Guarded with an exception handler that returns an empty result
GuardedUnmarked(body) == IF body.raised THEN EmptyDict ELSE body.value

\* try: ... return analysis / except Exception as e: return {'error': str(e)}
Guarded(body) == IF body.raised THEN ErrorResult(body.msg) ELSE body.value

analyze_business(comps, env) == Guarded(BusinessBody(comps, env))

\* FinancialsBody with the groups of the metrics at the top of the mapping
FinancialsBodyFlattened(data, env) ==
    LET statements == extract_financial_statements(Get(data, "tables", <<>>))
        financial_data == build_financial_data_dict(statements)
    IN  IF env.raises THEN Raise(env.msg)
        ELSE Ok([raw_data |-> financial_data,
                 basic_metrics |-> env.metrics.basic_metrics,
                 growth_metrics |-> env.metrics.growth_metrics,
                 ratios |-> env.metrics.ratios,
                 statements |-> statements])

\* the try body of analyze_financials
FinancialsBody(data, env) ==
    LET statements == extract_financial_statements(Get(data, "tables", <<>>))
        financial_data == build_financial_data_dict(statements)
    IN  IF env.raises THEN Raise(env.msg)
        ELSE Ok([raw_data |-> financial_data,
                 metrics |-> env.metrics,
                 statements |-> statements])

analyze_financials(data, env) == Guarded(FinancialsBody(data, env))

\* risk_analysis['risk_score'] = risk_analyzer.get_risk_score(...)
WithRiskScore(risk_analysis) ==
    IF risk_analysis.raised THEN risk_analysis
    ELSE Ok(Put(risk_analysis.value, "risk_score",
                get_risk_score(Get(risk_analysis.value, "severity_analysis", EmptyDict))))

\* the try body of analyze_risks
RisksBody(comps, env) ==
    IF ~comps.embedder \/ ~comps.vector_store \/ ~comps.llm THEN Raise(NoneTypeError)
    ELSE IF env.raises THEN Raise(env.msg)
    ELSE WithRiskScore(analyze_all_risks(env.risks, comps.llm, env.gen))

analyze_risks(comps, env) == Guarded(RisksBody(comps, env))

\* the try body of analyze_ipo_details
IpoDetailsBody(comps, env) ==
    IF ~comps.embedder \/ ~comps.vector_store \/ ~comps.llm THEN Raise(NoneTypeError)
    ELSE IF env.raises THEN Raise(env.msg)
    ELSE Ok([extracted_details |-> Strip(env.text), num_sources |-> env.num_sources])

analyze_ipo_details(comps, env) == Guarded(IpoDetailsBody(comps, env))

\* the try body of the orchestrator's generate_recommendation
RecommendationBody(analysis, comps, gen, fp) ==
    EngineRecommendation(analysis, comps.llm, gen, fp)

generate_recommendation(analysis, comps, gen, fp) ==
    Guarded(RecommendationBody(analysis, comps, gen, fp))

(* _make_serializable: dicts and lists are rebuilt from their serialised    *)
(* members and primitives are kept; every value of the results is one of    *)
(* these.                                                                   *)
_make_serializable(obj) == obj

\* retrieval and generation of a stage: it raises msg, or yields text from num_sources chunks
StageEnvs ==
    {[raises |-> TRUE, msg |-> "collaborator failed", text |-> <<>>, num_sources |-> 0],
     [raises |-> FALSE, msg |-> "", text |-> <<"Generated analysis.", "\n">>, num_sources |-> 5]}

FinancialEnvs ==
    {[raises |-> b, msg |-> IF b THEN "metrics failed" ELSE "", metrics |-> m] :
        b \in BOOLEAN, m \in MetricsOutputs}

RiskEnvs ==
    {[raises |-> TRUE, msg |-> "retrieval failed", risks |-> <<>>,
      gen |-> [raises |-> TRUE, msg |-> "generation failed", text |-> <<>>]]}
    \cup {[raises |-> FALSE, msg |-> "", risks |-> rs, gen |-> g] :
            rs \in RiskLists, g \in GenBehaviours}

----------------------------------------------------------------------------
(* The pipeline: one orchestrator, constructed, optionally initialised, and *)
(* one call of run_complete_analysis.                                       *)

NotReturned == [returned |-> FALSE]
Returned(v) == [returned |-> TRUE, value |-> v]

PipelineInit ==
    /\ components = [embedder |-> FALSE, vector_store |-> FALSE, llm |-> FALSE]
    /\ pc = "constructed"
    /\ processed_data = None
    /\ results = EmptyDict
    /\ ret = NotReturned
    /\ events = <<>>
    /\ outcome = EmptyDict
    /\ artifact = <<>>

HarnessIdle ==
    /\ call = "none"
    /\ arg = EmptyDict
    /\ result = EmptyDict

Init == PipelineInit /\ HarnessIdle

(* initialize_components: the constructors run in the order Embedder,       *)
(* VectorStore, OllamaClient; k of them succeed before one raises (k = 3:   *)
(* none raises).                                                            *)
initialize_components ==
    /\ pc = "constructed"
    /\ \E k \in 0..3 :
          components' = [embedder |-> components.embedder \/ k >= 1,
                         vector_store |-> components.vector_store \/ k >= 2,
                         llm |-> components.llm \/ k >= 3]
    /\ UNCHANGED <<pc, processed_data, results, ret, events, outcome, artifact>>
    /\ UNCHANGED harnessVars

\* "if not processed_data: return {}"
AfterProcessPdf(data) ==
    IF Falsy(data) THEN "done" ELSE NextStep("process_pdf")

\* AfterBuildVectorStore with the return value of build_vector_store ignored
AfterBuildVectorStoreIgnored(built) == "analyze_business"

\* "if not self.build_vector_store(processed_data): return {}"
AfterBuildVectorStore(built) ==
    IF ~built THEN "done" ELSE NextStep("build_vector_store")

\* Step 1 of run_complete_analysis
Step1ProcessPdf ==
    /\ pc = "constructed"
    /\ \E parsed \in PdfOutcomes :
          /\ processed_data' = process_pdf(parsed)
          /\ outcome' = Put(outcome, "process_pdf", [raised |-> parsed.raised])
    /\ pc' = AfterProcessPdf(processed_data')
    /\ ret' = IF pc' = "done" THEN Returned(EmptyDict) ELSE ret
    /\ events' = Ran("process_pdf")
    /\ UNCHANGED <<components, results, artifact>>
    /\ UNCHANGED harnessVars

\* Step 2
Step2BuildVectorStore ==
    /\ pc = "build_vector_store"
    /\ \E collaborator_raises \in BOOLEAN :
          LET built == build_vector_store(processed_data, components, collaborator_raises)
          IN  /\ outcome' = Put(outcome, "build_vector_store", [raised |-> ~built])
              /\ pc' = AfterBuildVectorStore(built)
    /\ ret' = IF pc' = "done" THEN Returned(EmptyDict) ELSE ret
    /\ events' = Ran("build_vector_store")
    /\ UNCHANGED <<components, processed_data, results, artifact>>
    /\ UNCHANGED harnessVars

\* self.results[key] = <the stage method's return value>, then the next statement
StoreStage(stage, body, value) ==
    /\ results' = Put(results, ResultKey(stage), value)
    /\ outcome' = Put(outcome, stage, body)
    /\ pc' = NextStep(stage)
    /\ events' = Ran(stage)
    /\ UNCHANGED <<components, processed_data, ret, artifact>>
    /\ UNCHANGED harnessVars

\* Step 3
Step3AnalyzeBusiness ==
    /\ pc = "analyze_business"
    /\ \E env \in StageEnvs :
          StoreStage("analyze_business", BusinessBody(components, env),
                     analyze_business(components, env))

\* Step 4
Step4AnalyzeFinancials ==
    /\ pc = "analyze_financials"
    /\ \E env \in FinancialEnvs :
          StoreStage("analyze_financials", FinancialsBody(processed_data, env),
                     analyze_financials(processed_data, env))

\* Step 5
Step5AnalyzeRisks ==
    /\ pc = "analyze_risks"
    /\ \E env \in RiskEnvs :
          StoreStage("analyze_risks", RisksBody(components, env),
                     analyze_risks(components, env))

\* Step 6
Step6AnalyzeIpoDetails ==
    /\ pc = "analyze_ipo_details"
    /\ \E env \in StageEnvs :
          StoreStage("analyze_ipo_details", IpoDetailsBody(components, env),
                     analyze_ipo_details(components, env))

\* Step 7
Step7GenerateRecommendation ==
    /\ pc = "generate_recommendation"
    /\ \E gen \in GenBehaviours, fp \in {0, 1} :
          StoreStage("generate_recommendation",
                     RecommendationBody(results, components, gen, fp),
                     generate_recommendation(results, components, gen, fp))

\* SaveAndReturn writing the artifact only when no stage failed
SaveAndReturnIfClean ==
    /\ pc = "save_results"
    /\ artifact' = IF \E k \in DOMAIN results : "error" \in DOMAIN results[k]
                   THEN artifact
                   ELSE Append(artifact, results)
    /\ ret' = Returned(results)
    /\ pc' = "done"
    /\ UNCHANGED <<components, processed_data, results, events, outcome>>
    /\ UNCHANGED harnessVars

\* save_results, then "return self.results"
SaveAndReturn ==
    /\ pc = "save_results"
    /\ artifact' = Append(artifact, _make_serializable(results))
    /\ ret' = Returned(results)
    /\ pc' = "done"
    /\ UNCHANGED <<components, processed_data, results, events, outcome>>
    /\ UNCHANGED harnessVars

Next ==
    \/ initialize_components
    \/ Step1ProcessPdf
    \/ Step2BuildVectorStore
    \/ Step3AnalyzeBusiness
    \/ Step4AnalyzeFinancials
    \/ Step5AnalyzeRisks
    \/ Step6AnalyzeIpoDetails
    \/ Step7GenerateRecommendation
    \/ SaveAndReturn

Spec == Init /\ [][Next]_vars

----------------------------------------------------------------------------
(* The recommendation engine on its own: one function of                    *)
(* RecommendationEngine applied to one input.                               *)

\* overall scores in tenths
StanceInputs == {Rat(t, 10) : t \in 0..MaxTenths}

ScoreNames == {weights[i][1] : i \in DOMAIN weights}

\* score mappings: five values, supplied in one of several orders
ScoreSamples == {Num(45), Num(70), Rat(200, 3), Num(100)}
ScoreOrders == {<<1, 2, 3, 4, 5>>, <<5, 4, 3, 2, 1>>, <<3, 1, 5, 2, 4>>}
ScoreMappings ==
    {[i \in 1..5 |-> <<weights[o[i]][1], v[o[i]]>>] :
        o \in ScoreOrders, v \in [1..5 -> ScoreSamples]}

\* analysis inputs of calculate_scores
CagrSamples ==
    {NoneNum, Num(0), Num(-5), Num(5), Num(6), Num(10), Num(11), Num(20), Num(21)}
MarginSamples ==
    {<<>>, SeriesLow, SeriesHigh, << <<2023, Num(30)>>, <<2022, Num(3)>> >>}
    \cup {<< <<2023, v>> >> : v \in {Num(-50), Num(5), Num(6), Num(10), Num(11), Num(20), Num(21)}}
DebtSamples ==
    {<<>>, << <<2022, Rat(5, 2)>>, <<2023, Rat(3, 10)>> >>,
     << <<2023, Rat(3, 10)>>, <<2022, Rat(5, 2)>> >>}
    \cup {<< <<2023, v>> >> : v \in {Rat(2, 5), Rat(1, 2), Rat(9, 10), Num(1), Num(2), Rat(21, 10)}}

FinancialSections ==
    {[present |-> FALSE, v |-> EmptyDict],
     [present |-> TRUE, v |-> EmptyDict],
     [present |-> TRUE, v |-> ErrorResult("metrics failed")],
     [present |-> TRUE, v |-> [growth_metrics |-> [revenue_cagr_3y |-> Num(25)]]]}
    \cup {[present |-> TRUE,
           v |-> [basic_metrics |-> [ebitda_margin |-> m],
                  growth_metrics |-> [revenue_cagr_3y |-> g],
                  ratios |-> [debt_to_equity |-> r]]] :
            m \in MarginSamples, g \in CagrSamples, r \in DebtSamples}

RiskSections ==
    {[present |-> FALSE, v |-> EmptyDict],
     [present |-> TRUE, v |-> EmptyDict],
     [present |-> TRUE, v |-> ErrorResult("retrieval failed")],
     [present |-> TRUE, v |-> [total_risks |-> 3]]}
    \cup {[present |-> TRUE, v |-> [total_risks |-> 3, risk_score |-> r]] :
            r \in {Num(0), Rat(100, 3), Num(40), Rat(800, 9), Num(100)}}

MkAnalysis(f, r, b) ==
    LET keys == (IF f.present THEN {"financials"} ELSE {})
                \cup (IF r.present THEN {"risks"} ELSE {})
                \cup (IF b THEN {"business"} ELSE {})
    IN  [k \in keys |->
            IF k = "financials" THEN f.v
            ELSE IF k = "risks" THEN r.v
            ELSE [summary |-> <<"Executive summary of business analysis">>]]

EngineInit ==
    /\ PipelineInit
    /\ call = "none"
    /\ result = EmptyDict
    /\ \/ \E s \in StanceInputs :
             arg = [fn |-> "determine_stance", overall_score |-> s]
       \/ \E m \in ScoreMappings, fp \in {0, 1} :
             arg = [fn |-> "calculate_overall_score", scores |-> m, fp |-> fp]
       \/ \E f \in FinancialSections, r \in RiskSections, b \in BOOLEAN :
             arg = [fn |-> "calculate_scores", analysis |-> MkAnalysis(f, r, b)]

Apply(fn, value) ==
    /\ call = "none"
    /\ arg.fn = fn
    /\ call' = fn
    /\ result' = value
    /\ UNCHANGED arg
    /\ UNCHANGED pipelineVars

ApplyDetermineStance ==
    Apply("determine_stance", [stance |-> determine_stance(arg.overall_score)])

ApplyCalculateOverallScore ==
    Apply("calculate_overall_score",
          [overall_score |-> calculate_overall_score(arg.scores, arg.fp)])

ApplyCalculateScores ==
    Apply("calculate_scores", [scores |-> calculate_scores(arg.analysis)])

EngineNext ==
    \/ ApplyDetermineStance
    \/ ApplyCalculateOverallScore
    \/ ApplyCalculateScores

SpecEngine == EngineInit /\ [][EngineNext]_vars

----------------------------------------------------------------------------
(* Calls of the risk analyzer's functions on inputs drawn from bounded sets *)

\* classified and assessed records: a category and a severity each
AssessedRecords ==
    {[title |-> <<"Risk">>, description |-> <<>>, category |-> c, severity |-> s] :
        c \in {"financial_risk", "legal_risk", "other"}, s \in {"High", "Medium", "Low"}}

AssessedLists == UNION {[1..n -> AssessedRecords] : n \in 0..MaxRisks}

\* the severity analysis of records that carry their category and severity
SeverityAnalysisOf(records) ==
    LET bucket(c) == Deref(records, Bucket(records, c, 1))
        n(c, sev) == SeverityCount(bucket(c), sev)
    IN  [c \in {records[i].category : i \in DOMAIN records} |->
            [risks |-> bucket(c),
             count |-> Len(bucket(c)),
             severity_breakdown |->
                [high |-> n(c, "High"), medium |-> n(c, "Medium"), low |-> n(c, "Low")]]]

\* the words of the titles and descriptions of parsed records
RiskWords ==
    {"Litigation", "lawsuit", "Debt", "indebtedness", "liquidity", "operations",
     "Material", "immaterial", "significant", "potential", "uncertainty",
     "may", "affect", "affected", "weather"}

\* words joined by single spaces
Sentence(ws) ==
    [i \in 1..(2 * Len(ws) - 1) |-> IF i % 2 = 1 THEN ws[(i + 1) \div 2] ELSE " "]

\* parsed records: a one-word title and a description of the other words
ParsedRecords ==
    {[title |-> <<ws[1]>>,
      description |-> IF Len(ws) = 1 THEN <<>> ELSE Sentence(Tail(ws)),
      category |-> NoneStr, severity |-> NoneStr] :
        ws \in UNION {[1..n -> RiskWords] : n \in 1..MaxWords}}

\* one line of a generated reply: numbering, title text, and what follows it
LinePrefixes ==
    {<<"1", ".", " ">>, <<"-", " ">>, <<" ", " ", "1", "0", ")", " ">>, <<>>}
LineTitles ==
    {<<"Customer", " ", "Concentration">>, <<"Covid", "-", "1", "9">>,
     <<"Phase", " ", "2">>, <<"Supply", " ", "(", "global", ")">>}
LineTails ==
    {<<>>, <<":">>, <<" ", ":", " ", "Heavy", " ", "dependence", " ">>,
     <<":", " ", "Ratio", " ", "2", ":", "1">>}
RiskLines == {p \o t \o d : p \in LinePrefixes, t \in LineTitles, d \in LineTails}

\* what the reply holds before and after that line
LinesBefore == {<<>>, <<"Extracted", " ", "Risks", ":", "\n", "\n">>}
LinesAfter == {<<>>, <<"\n", "2", ".", " ", "Debt", ":", " ", "Significant", " ", "debt">>}

RiskInit ==
    /\ PipelineInit
    /\ call = "none"
    /\ result = EmptyDict
    /\ \/ \E rs \in AssessedLists :
             arg = [fn |-> "get_risk_score", records |-> rs]
       \/ \E r \in ParsedRecords :
             arg = [fn |-> "_assess_risk_severity", risk |-> r]
       \/ \E r \in ParsedRecords :
             arg = [fn |-> "_classify_single_risk", risk |-> r]
       \/ \E b \in LinesBefore, l \in RiskLines, a \in LinesAfter :
             arg = [fn |-> "_parse_risk_response", response |-> b \o l \o a, line |-> l]

ApplyGetRiskScore ==
    Apply("get_risk_score",
          [risk_score |-> get_risk_score(SeverityAnalysisOf(arg.records))])

ApplyAssessRiskSeverity ==
    Apply("_assess_risk_severity", [severity |-> _assess_risk_severity(arg.risk)])

ApplyClassifySingleRisk ==
    Apply("_classify_single_risk", [category |-> _classify_single_risk(arg.risk)])

ApplyParseRiskResponse ==
    Apply("_parse_risk_response", [risks |-> _parse_risk_response(arg.response)])

RiskNext ==
    \/ ApplyGetRiskScore
    \/ ApplyAssessRiskSeverity
    \/ ApplyClassifySingleRisk
    \/ ApplyParseRiskResponse

SpecRisk == RiskInit /\ [][RiskNext]_vars

----------------------------------------------------------------------------
(* One call of analyze_all_risks, statement by statement.  While the call   *)
(* runs, result holds its locals: heap, the records in creation order;      *)
(* classified, per category the indices of its records; severity_analysis;  *)
(* i, the record classify_risks is at; c and j, the category and the record *)
(* of its bucket assess_severity is at.                                     *)

LifecycleInit ==
    /\ PipelineInit
    /\ call = "none"
    /\ result = EmptyDict
    /\ \E response \in RiskResponses, gen \in GenBehaviours :
          arg = [fn |-> "analyze_all_risks", response |-> response, gen |-> gen]

\* risks = self.extract_risk_factors(): the records are created by the parser
ExtractRiskFactors ==
    /\ call = "none"
    /\ arg.fn = "analyze_all_risks"
    /\ call' = "classify_risks"
    /\ result' = [heap |-> _parse_risk_response(arg.response),
                  classified |-> [cat \in {CategoryNames[k] : k \in DOMAIN CategoryNames}
                                    |-> <<>>],
                  severity_analysis |-> EmptyDict,
                  i |-> 1, c |-> 1, j |-> 1]
    /\ UNCHANGED arg
    /\ UNCHANGED pipelineVars

\* risk['category'] = category
ClassifiedRecord(risk) == [risk EXCEPT !.category = _classify_single_risk(risk)]

\* risk['severity'] = severity on a record made anew
AssessedRecordRecreated(risk) ==
    [title |-> risk.title, description |-> risk.description, category |-> NoneStr,
     severity |-> _assess_risk_severity(risk)]

\* risk['severity'] = severity
AssessedRecord(risk) == [risk EXCEPT !.severity = _assess_risk_severity(risk)]

\* one iteration of the loop of classify_risks
ClassifyRisk ==
    /\ call = "classify_risks"
    /\ result.i <= Len(result.heap)
    /\ LET risk == ClassifiedRecord(result.heap[result.i])
       IN  result' = [result EXCEPT
                        !.heap[result.i] = risk,
                        !.classified[risk.category] = Append(@, result.i),
                        !.i = @ + 1]
    /\ UNCHANGED <<call, arg>>
    /\ UNCHANGED pipelineVars

\* classify_risks returns, assess_severity starts
ClassifyReturn ==
    /\ call = "classify_risks"
    /\ result.i > Len(result.heap)
    /\ call' = "assess_severity"
    /\ UNCHANGED <<arg, result>>
    /\ UNCHANGED pipelineVars

\* the bucket assess_severity is at
CurrentBucket(locals) == locals.classified[CategoryNames[locals.c]]

\* one iteration of the inner loop of assess_severity
AssessRisk ==
    /\ call = "assess_severity"
    /\ result.c <= Len(CategoryNames)
    /\ result.j <= Len(CurrentBucket(result))
    /\ result' = [result EXCEPT
                     !.heap[CurrentBucket(result)[result.j]] = AssessedRecord(@),
                     !.j = @ + 1]
    /\ UNCHANGED <<call, arg>>
    /\ UNCHANGED pipelineVars

\* CategorySummary that leaves the Low records out of the breakdown
CategorySummaryWithoutLow(heap, ids) ==
    [risks |-> ids,
     count |-> Len(ids),
     severity_breakdown |->
        [high |-> SeverityCount(Deref(heap, ids), "High"),
         medium |-> SeverityCount(Deref(heap, ids), "Medium"),
         low |-> 0]]

\* severity_analysis[category] = {...} of a bucket, the records by reference
CategorySummary(heap, ids) ==
    [risks |-> ids,
     count |-> Len(ids),
     severity_breakdown |->
        [high |-> SeverityCount(Deref(heap, ids), "High"),
         medium |-> SeverityCount(Deref(heap, ids), "Medium"),
         low |-> SeverityCount(Deref(heap, ids), "Low")]]

\* the end of one iteration of the outer loop of assess_severity
AssessCategory ==
    /\ call = "assess_severity"
    /\ result.c <= Len(CategoryNames)
    /\ result.j > Len(CurrentBucket(result))
    /\ result' = [result EXCEPT
                     !.severity_analysis =
                        IF CurrentBucket(result) = <<>> THEN @
                        ELSE [cat \in DOMAIN @ \cup {CategoryNames[result.c]} |->
                                IF cat = CategoryNames[result.c]
                                THEN CategorySummary(result.heap, CurrentBucket(result))
                                ELSE @[cat]],
                     !.c = @ + 1,
                     !.j = 1]
    /\ UNCHANGED <<call, arg>>
    /\ UNCHANGED pipelineVars

\* assess_severity returns
AssessReturn ==
    /\ call = "assess_severity"
    /\ result.c > Len(CategoryNames)
    /\ call' = "generate_risk_summary"
    /\ UNCHANGED <<arg, result>>
    /\ UNCHANGED pipelineVars

\* the summary is generated and analyze_all_risks returns, or raises
SummariseAndReturn ==
    /\ call = "generate_risk_summary"
    /\ call' = "analyze_all_risks"
    /\ result' = AssessedRisks(result.heap, result, result, TRUE, arg.gen)
    /\ UNCHANGED arg
    /\ UNCHANGED pipelineVars

LifecycleNext ==
    \/ ExtractRiskFactors
    \/ ClassifyRisk
    \/ ClassifyReturn
    \/ AssessRisk
    \/ AssessCategory
    \/ AssessReturn
    \/ SummariseAndReturn

SpecLifecycle == LifecycleInit /\ [][LifecycleNext]_vars

----------------------------------------------------------------------------
(* Calls of the recommendation engine's remaining functions on inputs      *)
(* drawn from bounded sets                                                 *)

\* score values on both sides of every threshold the functions compare with
ThresholdSamples == {Num(39), Num(40), Num(49), Num(50), Num(74), Num(75)}
ThresholdMappings ==
    {<< <<"business_score", b>>, <<"financial_score", f>>, <<"industry_score", Num(65)>>,
        <<"risk_score", r>>, <<"valuation_score", v>> >> :
        b \in {Num(74), Num(75)}, f \in ThresholdSamples, r \in ThresholdSamples,
        v \in ThresholdSamples}

\* score values around the thresholds of determine_suitability
SuitabilitySamples == {Num(40), Num(60), Num(69), Num(70), Rat(151, 2), Num(100)}
SuitabilityMappings ==
    {[i \in 1..5 |-> <<weights[i][1], v[i]>>] : v \in [1..5 -> SuitabilitySamples]}

\* risk summaries of 0, 10, 50 and 51 characters
Summary50 == <<"Litigation", " ", "pending", " ", "and", " ", "significant", " ", "debt; weather. ">>
RiskSummaries == {<<>>, <<"Few", " ", "risks", ".">>, Summary50, Summary50 \o <<"!">>}

\* analysis inputs of extract_key_concerns: without risks, with risks that
\* have no summary, and with a summary
ConcernAnalyses ==
    {EmptyDict, [risks |-> EmptyDict], [risks |-> [total_risks |-> 3]]}
    \cup {[risks |-> [total_risks |-> 3, summary |-> t]] : t \in RiskSummaries}

\* analysis inputs of generate_recommendation
RecommendationFinancials ==
    {[present |-> FALSE, v |-> EmptyDict],
     [present |-> TRUE, v |-> ErrorResult("metrics failed")]}
    \cup {[present |-> TRUE,
           v |-> [basic_metrics |-> [ebitda_margin |-> m],
                  growth_metrics |-> [revenue_cagr_3y |-> g],
                  ratios |-> [debt_to_equity |-> r]]] :
            m \in {<<>>, SeriesLow, SeriesHigh},
            g \in {NoneNum, Num(-5), Num(11), Num(21)},
            r \in {<<>>, RatioLow, RatioHigh}}
RecommendationRisks ==
    {[present |-> FALSE, v |-> EmptyDict],
     [present |-> TRUE, v |-> ErrorResult("retrieval failed")]}
    \cup {[present |-> TRUE, v |-> [total_risks |-> 3, risk_score |-> r, summary |-> t]] :
            r \in {Num(0), Rat(100, 3), Rat(800, 9), Num(100)},
            t \in {<<"Few", " ", "risks", ".">>, Summary50 \o <<"!">>}}
RecommendationGens ==
    {[raises |-> TRUE, msg |-> "generation failed", text |-> <<>>],
     [raises |-> FALSE, msg |-> "", text |-> <<" ", "Brief reply.", "\n">>]}

RecommendationInit ==
    /\ PipelineInit
    /\ call = "none"
    /\ result = EmptyDict
    /\ \/ \E m \in SuitabilityMappings, st \in {"Neutral", "Avoid"}, fp \in {0, 1} :
             arg = [fn |-> "determine_suitability", scores |-> m, stance |-> st,
                    fp |-> fp]
       \/ \E a \in ConcernAnalyses, m \in ThresholdMappings :
             arg = [fn |-> "extract_key_strengths", analysis |-> a, scores |-> m]
       \/ \E a \in ConcernAnalyses, m \in ThresholdMappings :
             arg = [fn |-> "extract_key_concerns", analysis |-> a, scores |-> m]
       \/ \E f \in RecommendationFinancials, r \in RecommendationRisks,
             llm \in BOOLEAN, gen \in RecommendationGens, fp \in {0, 1} :
             arg = [fn |-> "generate_recommendation",
                    analysis_results |-> MkAnalysis(f, r, TRUE),
                    llm |-> llm, gen |-> gen, fp |-> fp]

ApplyDetermineSuitability ==
    Apply("determine_suitability",
          [suitability |-> determine_suitability(arg.scores, arg.stance, arg.fp)])

ApplyExtractKeyStrengths ==
    Apply("extract_key_strengths",
          [key_strengths |-> extract_key_strengths(arg.analysis, arg.scores)])

ApplyExtractKeyConcerns ==
    Apply("extract_key_concerns",
          [key_concerns |-> extract_key_concerns(arg.analysis, arg.scores)])

ApplyGenerateRecommendation ==
    Apply("generate_recommendation",
          EngineRecommendation(arg.analysis_results, arg.llm, arg.gen, arg.fp))

RecommendationNext ==
    \/ ApplyDetermineSuitability
    \/ ApplyExtractKeyStrengths
    \/ ApplyExtractKeyConcerns
    \/ ApplyGenerateRecommendation

SpecRecommendation == RecommendationInit /\ [][RecommendationNext]_vars

----------------------------------------------------------------------------
(* Calls of the table extractor's functions on tables drawn from bounded    *)
(* sets                                                                     *)

\* column headers: the label column's, then three value columns'
FiscalLongHeaders ==
    << <<"Particulars">>, <<"FY", "2", "0", "2", "1">>, <<"FY", "2", "0", "2", "2">>,
       <<"FY", "2", "0", "2", "3">> >>
FiscalShortHeaders ==
    << <<"Particulars">>, <<"FY", "2", "1">>, <<"FY", "2", "2">>, <<"FY", "2", "3">> >>
CalendarHeaders ==
    << <<"Particulars">>, <<"2", "0", "2", "1">>, <<"2", "0", "2", "2">>, <<"2", "0", "2", "3">> >>
MixedHeaders ==
    << <<"Particulars">>, <<"FY", " ", "2", "2">>, <<"Mar", " ", "2", "0", "2", "3">>,
       <<"Q", "1">> >>
HeaderRows == {FiscalLongHeaders, FiscalShortHeaders, CalendarHeaders, MixedHeaders}

RowLabels == {<<"Revenue">>, <<"Total", " ", "Revenue">>, <<"EBITDA">>, <<"PAT">>}
RowCells ==
    {<<Num(800), Num(900), Num(1000)>>, <<NaN, NaN, NaN>>, <<Num(800), NaN, Num(1000)>>}
TableRows == {<<l>> \o c : l \in RowLabels, c \in RowCells}

\* tables of value rows under one of the header rows
SeriesFrames ==
    {[columns |-> h, rows |-> rs] :
        h \in HeaderRows, rs \in UNION {[1..n -> TableRows] : n \in 0..MaxRows}}

MetricNames == {"revenue", "ebit", "pat", "cash"}

\* tables told apart by their first header and their labels
FirstHeaders == {<<"Particulars">>, <<"Balance", " ", "Sheet">>, <<"Income", " ", "Statement">>}
StatementLabels ==
    {<<"Revenue">>, <<"Total", " ", "Assets">>, <<"Equity">>, <<"Cash", " ", "flow">>,
     <<"net", " ", "worth">>, <<"profit">>}
StatementFrames ==
    {[columns |-> <<h, <<"FY", "2", "3">> >>,
      rows |-> [i \in DOMAIN ls |-> <<ls[i], Num(800)>>]] :
        h \in FirstHeaders, ls \in UNION {[1..n -> StatementLabels] : n \in 1..MaxRows}}

\* tables as the PDF parser hands them over, marked financial or not
IncomeFrame ==
    [columns |-> << <<"Particulars">>, <<"FY", "2", "2">>, <<"FY", "2", "3">> >>,
     rows |-> << <<<<"Revenue">>, Num(900), Num(1000)>> >>]
ProfitFrame ==
    [columns |-> << <<"Income", " ", "Statement">>, <<"2", "0", "2", "2">>, <<"Notes">> >>,
     rows |-> << <<<<" ", "Profit">>, Num(90), TextCell>>,
                 <<<<"Total", " ", "Assets">>, NaN, TextCell>> >>]
BalanceFrame ==
    [columns |-> << <<"Balance", " ", "Sheet">>, <<"FY", "2", "3">> >>,
     rows |-> << <<<<"Total", " ", "Assets">>, Num(5000)>> >>]
CashFrame ==
    [columns |-> << <<"Particulars">>, <<"FY", "2", "3">> >>,
     rows |-> << <<<<"Cash", " ", "flow">>, Num(70)>> >>]
UntypedFrame ==
    [columns |-> << <<"Particulars">>, <<"FY", "2", "3">> >>,
     rows |-> << <<<<"net", " ", "worth">>, Num(400)>> >>]
ParsedTables ==
    {[type |-> t, data |-> df] :
        t \in {"financial", "other"},
        df \in {IncomeFrame, ProfitFrame, BalanceFrame, CashFrame, UntypedFrame}}
TableLists == UNION {[1..n -> ParsedTables] : n \in 0..MaxTables}

\* tables before preprocessing: value columns with and without a year in
\* the header, cells that hold a number, nothing or text
RawHeaderRows ==
    {<< <<"Particulars">>, <<"Notes">>, <<"FY", "2", "2">>, <<"2", "0", "2", "3">> >>,
     << <<"Particulars">>, <<"FY", "2", "0", "2", "1">>, <<"Mar", " ", "2", "0", "2", "3">>,
        <<"Notes">> >>,
     << <<"Particulars">>, <<"Notes">>, <<"Q", "1">>, <<"FY", "2", "0", "2", "1">> >>}
RawRows ==
    {<<l, a, b, c>> :
        l \in {<<"Revenue">>, <<" ", "PAT", " ">>},
        a \in {Num(1), TextCell}, b \in {Num(900), NaN, TextCell}, c \in {Num(1000), NaN}}
RawFrames ==
    {[columns |-> h, rows |-> rs] :
        h \in RawHeaderRows, rs \in UNION {[1..n -> RawRows] : n \in 1..MaxRows}}

TableInit ==
    /\ PipelineInit
    /\ call = "none"
    /\ result = EmptyDict
    /\ \/ \E df \in StatementFrames :
             arg = [fn |-> "_identify_statement_type", df |-> df]
       \/ \E tables \in TableLists :
             arg = [fn |-> "extract_financial_statements", tables |-> tables]
       \/ \E df \in RawFrames :
             arg = [fn |-> "_process_financial_table", df |-> df]
       \/ \E df \in SeriesFrames, m \in MetricNames :
             arg = [fn |-> "extract_metric_timeseries", df |-> df, metric_name |-> m]

ApplyIdentifyStatementType ==
    Apply("_identify_statement_type",
          [statement_type |-> _identify_statement_type(arg.df)])

ApplyExtractMetricTimeseries ==
    Apply("extract_metric_timeseries",
          [timeseries |-> extract_metric_timeseries(arg.df, arg.metric_name)])

ApplyExtractFinancialStatements ==
    Apply("extract_financial_statements",
          [statements |-> extract_financial_statements(arg.tables)])

ApplyProcessFinancialTable ==
    Apply("_process_financial_table", [df |-> _process_financial_table(arg.df)])

TableNext ==
    \/ ApplyIdentifyStatementType
    \/ ApplyExtractFinancialStatements
    \/ ApplyProcessFinancialTable
    \/ ApplyExtractMetricTimeseries

SpecTable == TableInit /\ [][TableNext]_vars

----------------------------------------------------------------------------
(* Properties of the pipeline (checked under Spec) *)

\* stages 3-7, whose return values make up the report
ReportStages == {StageOrder[i] : i \in 3..7}

Stage1Failed == "process_pdf" \in DOMAIN outcome /\ Falsy(processed_data)
Stage2Failed ==
    "build_vector_store" \in DOMAIN outcome /\ outcome["build_vector_store"].raised
PastStage2 ==
    "build_vector_store" \in DOMAIN outcome /\ ~outcome["build_vector_store"].raised

StageRaised(s) == s \in DOMAIN outcome /\ outcome[s].raised
StageSucceeded(s) == s \in DOMAIN outcome /\ ~outcome[s].raised

(* C1: once stages 1 and 2 have succeeded, an exception inside one of       *)
(* stages 3-7 becomes the result {error: message} of that stage only: the   *)
(* run goes on to the next statement, every later stage is executed, and    *)
(* no result stored earlier is changed.                                     *)
C1_StageErrorIsolated ==
    /\ [](\A s \in ReportStages :
             StageRaised(s) =>
                /\ ResultKey(s) \in DOMAIN results
                /\ results[ResultKey(s)] = ErrorResult(outcome[s].msg))
    /\ []((pc = "done" /\ PastStage2) => ReportStages \subseteq DOMAIN outcome)
    /\ [][\A k \in DOMAIN results :
             k \in DOMAIN results' /\ results'[k] = results[k]]_vars
    /\ [][\A s \in ReportStages :
             (s \notin DOMAIN outcome /\ s \in DOMAIN outcome' /\ outcome'[s].raised) =>
                /\ pc' = NextStep(s)
                /\ DOMAIN results' = DOMAIN results \cup {ResultKey(s)}]_vars

C1_Witness ==
    /\ pc = "done"
    /\ StageSucceeded("analyze_business")
    /\ StageRaised("analyze_risks")
    /\ StageSucceeded("generate_recommendation")
    /\ results["risks"] = ErrorResult("retrieval failed")
    /\ results["business"] = outcome["analyze_business"].value

(* C2: when stage 1 or stage 2 fails the run is aborted at once: no later   *)
(* stage is started, nothing is stored and the empty result is returned.    *)
C2_FatalStagesAbort ==
    (Stage1Failed \/ Stage2Failed) =>
        /\ pc = "done"
        /\ ret = Returned(EmptyDict)
        /\ results = EmptyDict
        /\ \A s \in ReportStages : s \notin DOMAIN outcome
        /\ Stage1Failed => "build_vector_store" \notin DOMAIN outcome
        /\ \A i \in DOMAIN events :
              events[i][2] \in {"process_pdf", "build_vector_store"}

C2_Witness ==
    /\ Stage2Failed
    /\ components.embedder /\ components.vector_store
    /\ pc = "done"
    /\ ret = Returned(EmptyDict)

\* the report holds, for stage s, what the stage computed or an error marker
Reported(report, s) ==
    /\ ResultKey(s) \in DOMAIN report
    /\ IF StageSucceeded(s)
       THEN report[ResultKey(s)] = outcome[s].value
       ELSE "error" \in DOMAIN report[ResultKey(s)]

(* C3 as stated: in every run, stage 1 or 2 failing included, the returned  *)
(* report holds every stage's result or an explicit error marker.           *)
C3_Original ==
    ret.returned => \A s \in ReportStages : Reported(ret.value, s)

(* C3: in every run that gets past stages 1 and 2 the returned report       *)
(* holds, for each of stages 3-7, the result the stage computed or an       *)
(* explicit error marker; a run aborted at stage 1 or 2 returns the empty   *)
(* report.                                                                  *)
C3_ReportComplete ==
    ret.returned =>
        IF PastStage2
        THEN \A s \in ReportStages : Reported(ret.value, s)
        ELSE ret.value = EmptyDict

C3_Witness ==
    /\ ret.returned
    /\ PastStage2
    /\ StageRaised("analyze_ipo_details")
    /\ StageSucceeded("analyze_financials")
    /\ "error" \in DOMAIN ret.value["ipo_details"]
    /\ "metrics" \in DOMAIN ret.value["financials"]

\* the calls and returns of the first n stages, in the documented order
CanonicalEvents(n) ==
    [i \in 1..(2 * n) |->
        <<IF i % 2 = 1 THEN "call" ELSE "return", StageOrder[(i + 1) \div 2]>>]

(* C4: the stages run strictly in the documented order, each at most once,  *)
(* and a stage is called only after the one before it has returned.         *)
C4_StagesInOrder ==
    \E n \in 0..Len(StageOrder) : events = CanonicalEvents(n)

C4_Witness ==
    /\ pc = "done"
    /\ events = CanonicalEvents(7)
    /\ StageRaised("analyze_financials")

(* C5: the result artifact is written exactly once in a run that gets past  *)
(* stages 1 and 2, after the recommendation stage has finished and          *)
(* whichever of stages 3-7 failed, and never in a run aborted at stage 1    *)
(* or 2.                                                                    *)
C5_ArtifactWrittenOnce ==
    /\ Len(artifact) <= 1
    /\ (pc = "done" /\ PastStage2) => Len(artifact) = 1
    /\ Len(artifact) = 1 => (PastStage2 /\ ReportStages \subseteq DOMAIN outcome)
    /\ (Stage1Failed \/ Stage2Failed) => artifact = <<>>

C5_Witness ==
    /\ pc = "done"
    /\ Len(artifact) = 1
    /\ StageRaised("analyze_business")
    /\ StageRaised("generate_recommendation")

\* the recommendation stage stored a full recommendation
Recommended ==
    /\ "recommendation" \in DOMAIN results
    /\ "scores" \in DOMAIN results["recommendation"]

SubScore(name) == ODGet(results["recommendation"].scores, name, NoneNum)

(* C6: the financial sub-score of the recommendation is the financial       *)
(* scoring rule applied to the metrics the financial stage of the same run  *)
(* returned.                                                                *)
C6_FinancialScoreFromMetrics ==
    (Recommended /\ StageSucceeded("analyze_financials")) =>
        SubScore("financial_score") = _score_financials(results["financials"].metrics)

(* C7: when the risk stage succeeds, the risk sub-score of the              *)
(* recommendation is 100 minus the aggregate risk score over all the        *)
(* classified risk records of the run.                                      *)
C7_RiskScoreInverted ==
    (Recommended /\ StageSucceeded("analyze_risks")) =>
        /\ SubScore("risk_score") = RSub(Num(100), results["risks"].risk_score)
        /\ SubScore("risk_score")
              = RSub(Num(100), AggregateRisk(results["risks"].all_risks))

C7_Witness ==
    /\ Recommended
    /\ StageSucceeded("analyze_risks")
    /\ Len(results["risks"].all_risks) = 3
    /\ SeverityCount(results["risks"].all_risks, "High") = 2
    /\ SeverityCount(results["risks"].all_risks, "Medium") = 1
    /\ SubScore("risk_score") = Rat(100, 9)

----------------------------------------------------------------------------
(* Properties of the recommendation engine (checked under SpecEngine) *)

(* C8: determine_stance gives every overall score exactly one stance:       *)
(* Conservative - Positive from 75, Neutral from 60, Aggressive -           *)
(* Speculative from 50, Avoid below; 75, 60 and 50 belong to the higher     *)
(* tier.                                                                    *)
C8_StanceTiers ==
    call = "determine_stance" =>
        LET s == arg.overall_score
        IN  result.stance =
                IF 10 * s[1] >= 750 * s[2] THEN "Conservative - Positive"
                ELSE IF 10 * s[1] >= 600 * s[2] THEN "Neutral"
                ELSE IF 10 * s[1] >= 500 * s[2] THEN "Aggressive - Speculative"
                ELSE "Avoid"

C8_Witness ==
    /\ call = "determine_stance"
    /\ arg.overall_score = Num(60)
    /\ result.stance = "Neutral"

\* the value supplied for a score name, wherever it stands in the mapping
Supplied(scores, name) ==
    CHOOSE v \in {scores[i][2] : i \in DOMAIN scores} :
        \E i \in DOMAIN scores : scores[i] = <<name, v>>

\* (25 business + 30 financial + 20 industry + 15 risk + 10 valuation) / 100
ExactOverall(scores) ==
    LET term(w, name) == RMul(Rat(w, 100), Supplied(scores, name))
    IN  RAdd(term(25, "business_score"),
        RAdd(term(30, "financial_score"),
        RAdd(term(20, "industry_score"),
        RAdd(term(15, "risk_score"), term(10, "valuation_score")))))

\* x is a multiple of 1/10 and no multiple of 1/10 is nearer to e
NearestTenth(x, e) ==
    LET d == RSub(x, e)
    IN  /\ 10 % x[2] = 0
        /\ 20 * Abs(d[1]) <= d[2]

(* C9: calculate_overall_score is the weighted sum 0.25 business + 0.30     *)
(* financial + 0.20 industry + 0.15 risk + 0.10 valuation rounded to one    *)
(* decimal, whatever the order of the scores in the mapping supplied.       *)
C9_OverallScore ==
    call = "calculate_overall_score" =>
        /\ NearestTenth(result.overall_score, ExactOverall(arg.scores))
        /\ \A p \in Permutations(DOMAIN arg.scores) :
              calculate_overall_score([i \in DOMAIN arg.scores |-> arg.scores[p[i]]],
                                      arg.fp)
                = result.overall_score

C9_Witness ==
    /\ call = "calculate_overall_score"
    /\ arg.scores = << <<"valuation_score", Num(45)>>, <<"risk_score", Rat(200, 3)>>,
                       <<"industry_score", Num(70)>>, <<"financial_score", Num(100)>>,
                       <<"business_score", Num(45)>> >>
    /\ result.overall_score = Rat(698, 10)

(* C10: calculate_scores returns exactly the five scores business,          *)
(* financial, industry, risk and valuation, each in [0, 100], for every     *)
(* analysis input whose risk_score is absent or in [0, 100].                *)
C10_FiveScoresInRange ==
    call = "calculate_scores" =>
        LET scores == result.scores
        IN  /\ Len(scores) = 5
            /\ {scores[i][1] : i \in DOMAIN scores} = ScoreNames
            /\ \A i \in DOMAIN scores :
                  /\ scores[i][2][2] > 0
                  /\ 0 <= scores[i][2][1]
                  /\ scores[i][2][1] <= 100 * scores[i][2][2]

C10_Witness ==
    /\ call = "calculate_scores"
    /\ "risks" \in DOMAIN arg.analysis
    /\ "risk_score" \in DOMAIN arg.analysis["risks"]
    /\ arg.analysis["risks"].risk_score = Num(100)
    /\ ODGet(result.scores, "risk_score", NoneNum) = Num(0)
    /\ ODGet(result.scores, "financial_score", NoneNum) = Num(90)

----------------------------------------------------------------------------
(* Properties of the risk analyzer (checked under SpecRisk) *)

(* C11: over records of all categories together, h High, m Medium and       *)
(* l Low, get_risk_score is 0 when there is no record and                   *)
(* 100 (3h + 2m + l) / (3 (h + m + l)) otherwise; it lies in [0, 100], is   *)
(* 100 when every record is High and 100/3 when every record is Low.        *)
C11_RiskScoreFormula ==
    call = "get_risk_score" =>
        LET rs == arg.records
            h == SeverityCount(rs, "High")
            m == SeverityCount(rs, "Medium")
            l == SeverityCount(rs, "Low")
            n == h + m + l
            score == result.risk_score
        IN  /\ n = Len(rs)
            /\ n = 0 => score = Num(0)
            /\ n > 0 => score[1] * 3 * n = 100 * (3 * h + 2 * m + l) * score[2]
            /\ score[2] > 0 /\ 0 <= score[1] /\ score[1] <= 100 * score[2]
            /\ (n > 0 /\ h = n) => score = Num(100)
            /\ (n > 0 /\ l = n) => score = Rat(100, 3)

C11_Witness ==
    /\ call = "get_risk_score"
    /\ Len(arg.records) = 3
    /\ {arg.records[i].category : i \in 1..3} = {"legal_risk", "other"}
    /\ SeverityCount(arg.records, "High") = 2
    /\ SeverityCount(arg.records, "Low") = 1
    /\ result.risk_score = Rat(700, 9)

\* the keywords of the list that occur in the lower-cased title + ' ' + description
Occurring(keywords, risk) ==
    {k \in DOMAIN keywords :
        Contains(Lower(risk.title \o <<" ">> \o risk.description), keywords[k])}

(* C12: the severity of a record is High when its text holds at least two   *)
(* high-severity indicators, else Medium when it holds exactly one          *)
(* high-severity indicator or at least two medium-severity indicators,      *)
(* else Low.                                                                *)
C12_SeverityRule ==
    call = "_assess_risk_severity" =>
        LET high == Cardinality(Occurring(high_indicators, arg.risk))
            medium == Cardinality(Occurring(medium_indicators, arg.risk))
        IN  result.severity =
                IF high >= 2 THEN "High"
                ELSE IF high = 1 \/ medium >= 2 THEN "Medium"
                ELSE "Low"

C12_Witness ==
    /\ call = "_assess_risk_severity"
    /\ Occurring(high_indicators, arg.risk) = {}
    /\ Cardinality(Occurring(medium_indicators, arg.risk)) = 2
    /\ result.severity = "Medium"

\* how many keywords of the i-th category occur in the record's text
Hits(i, risk) == Cardinality(Occurring(risk_categories[i][2], risk))

(* C13: the classifier returns the category with the most keywords          *)
(* occurring in the record's text, the earliest declared of those when      *)
(* several share the maximum, and other exactly when no keyword of any      *)
(* category occurs.                                                         *)
C13_ClassifierTieBreak ==
    call = "_classify_single_risk" =>
        LET cats == DOMAIN risk_categories
            top == {i \in cats : /\ Hits(i, arg.risk) > 0
                                 /\ \A j \in cats : Hits(j, arg.risk) <= Hits(i, arg.risk)}
        IN  /\ top = {} => result.category = "other"
            /\ top # {} =>
                  result.category
                    = risk_categories[CHOOSE i \in top : \A j \in top : i <= j][1]
            /\ result.category = "other" <=> \A i \in cats : Hits(i, arg.risk) = 0

C13_Witness ==
    /\ call = "_classify_single_risk"
    /\ arg.risk.title = <<"Litigation">>
    /\ arg.risk.description = <<"indebtedness">>
    /\ Hits(2, arg.risk) = 1
    /\ Hits(5, arg.risk) = 1
    /\ result.category = "financial_risk"

\* the line is a numbered or bulleted item
Qualifies(line) == line # <<>> /\ (Head(line) \in Digits \/ Head(line) = "-")

\* the text with its leading numbering removed and its end kept
WithoutNumbering(text) == RStrip(LStripChars(text, NumberingChars))

(* C17: the record parsed from a numbered or bulleted line with a colon     *)
(* has as title the text before the first colon with only its leading       *)
(* digits, punctuation and bullet markers removed, the end of that text     *)
(* being kept, and as description the text after the first colon; without   *)
(* a colon the title is the line without its leading numbering and the      *)
(* description is empty.                                                    *)
C17_TitleKeepsItsEnd ==
    (call = "_parse_risk_response" /\ Qualifies(Strip(arg.line))) =>
        LET line == Strip(arg.line)
            colon == IndexOf(line, ":", 1)
            record == result.risks[1]
        IN  IF colon > 0
            THEN /\ record.title = WithoutNumbering(SubSeq(line, 1, colon - 1))
                 /\ record.description = Strip(SubSeq(line, colon + 1, Len(line)))
            ELSE /\ record.title = WithoutNumbering(line)
                 /\ record.description = <<>>

----------------------------------------------------------------------------
(* Properties of the table extractor (checked under SpecTable) *)

\* some keyword of the list occurs in a header or in the label column
Present(keywords, df) ==
    \E k \in DOMAIN keywords : Contains(CombinedText(df), keywords[k])

(* C14: the statement type is profit_loss when a profit-and-loss keyword    *)
(* occurs in the headers or the label column, else balance_sheet when a     *)
(* balance-sheet keyword occurs, else cash_flow when a cash-flow keyword    *)
(* occurs, else none; a table with both profit-and-loss and balance-sheet   *)
(* or cash-flow keywords is profit_loss.                                    *)
C14_StatementTypePriority ==
    call = "_identify_statement_type" =>
        /\ Present(profit_loss_keywords, arg.df) => result.statement_type = "profit_loss"
        /\ (~Present(profit_loss_keywords, arg.df)
              /\ Present(balance_sheet_keywords, arg.df))
             => result.statement_type = "balance_sheet"
        /\ (~Present(profit_loss_keywords, arg.df)
              /\ ~Present(balance_sheet_keywords, arg.df)
              /\ Present(cash_flow_keywords, arg.df))
             => result.statement_type = "cash_flow"
        /\ (~Present(profit_loss_keywords, arg.df)
              /\ ~Present(balance_sheet_keywords, arg.df)
              /\ ~Present(cash_flow_keywords, arg.df))
             => result.statement_type = NoneStr

C14_Witness ==
    /\ call = "_identify_statement_type"
    /\ Present(profit_loss_keywords, arg.df)
    /\ Present(balance_sheet_keywords, arg.df)
    /\ arg.df.columns[1] = <<"Balance", " ", "Sheet">>
    /\ result.statement_type = "profit_loss"

\* the rows whose lower-cased label holds an alias of the metric
MatchingRows(df, metric_name) ==
    {i \in DOMAIN df.rows :
        \E p \in DOMAIN PatternsOf(metric_name) :
            Contains(Lower(df.rows[i][1]), PatternsOf(metric_name)[p])}

\* the top-most matching row
FirstMatchingRow(df, metric_name) ==
    df.rows[CHOOSE i \in MatchingRows(df, metric_name) :
                \A j \in MatchingRows(df, metric_name) : i <= j]

\* the numeric cells of a row under value columns of the years given
RECURSIVE NumericCells(_, _, _)
NumericCells(years, row, n) ==
    IF n = 0 THEN <<>>
    ELSE NumericCells(years, row, n - 1)
         \o (IF row[n + 1] # NaN THEN << <<years[n], row[n + 1]>> >> ELSE <<>>)

(* C15: under value columns headed FY2021, FY2022 and FY2023 the series of  *)
(* a metric holds, under the years 2021, 2022 and 2023, every numeric cell  *)
(* of the selected row, and no entry for a missing cell.                    *)
C15_FiscalYearSeries ==
    (/\ call = "extract_metric_timeseries"
     /\ arg.df.columns = FiscalLongHeaders
     /\ MatchingRows(arg.df, arg.metric_name) # {})
    => result.timeseries
         = NumericCells(<<2021, 2022, 2023>>, FirstMatchingRow(arg.df, arg.metric_name), 3)

(* C16: the series is taken from the top-most row whose label holds an      *)
(* alias of the metric and from no later row; it is empty when that row     *)
(* has no numeric cell under a column whose year is recognised.             *)
C16_FirstMatchingRowOnly ==
    call = "extract_metric_timeseries" =>
        IF MatchingRows(arg.df, arg.metric_name) = {}
        THEN result.timeseries = <<>>
        ELSE result.timeseries
               = RowSeries(arg.df.columns, FirstMatchingRow(arg.df, arg.metric_name),
                           Len(arg.df.columns))

----------------------------------------------------------------------------
(* Properties of the recommendation engine's suitability, lists and         *)
(* explanation (checked under SpecRecommendation)                           *)

(* C18: suitability is the conservative label iff overall >= 75 and         *)
(* risk >= 70; otherwise the moderate label iff overall >= 60; otherwise    *)
(* the aggressive label iff overall >= 50; otherwise "not suitable"; the    *)
(* stance passed in plays no part.                                          *)
C18_SuitabilityRule ==
    call = "determine_suitability" =>
        LET overall == calculate_overall_score(arg.scores, arg.fp)
            risk == ODGet(arg.scores, "risk_score", NoneNum)
            conservative == RGe(overall, Num(75)) /\ RGe(risk, Num(70))
        IN  /\ (result.suitability = "Conservative investors seeking quality with lower risk")
                 <=> conservative
            /\ (result.suitability = "Moderate investors comfortable with balanced risk-reward")
                 <=> (~conservative /\ RGe(overall, Num(60)))
            /\ (result.suitability = "Aggressive investors with high risk tolerance")
                 <=> (RLt(overall, Num(60)) /\ RGe(overall, Num(50)))
            /\ (result.suitability = "Not suitable for most retail investors")
                 <=> RLt(overall, Num(50))

C18_Witness ==
    /\ call = "determine_suitability"
    /\ RGe(calculate_overall_score(arg.scores, arg.fp), Num(75))
    /\ RLt(ODGet(arg.scores, "risk_score", NoneNum), Num(70))
    /\ result.suitability = "Moderate investors comfortable with balanced risk-reward"

\* the entries whose check fired, in the order of the checks
RECURSIVE FiredEntries(_, _)
FiredEntries(entries, fired) ==
    IF entries = <<>> THEN <<>>
    ELSE (IF Head(fired) THEN <<Head(entries)>> ELSE <<>>)
         \o FiredEntries(Tail(entries), Tail(fired))

\* a list of 1 to 4 entries that holds the fired entries in order and the
\* placeholder exactly when none fired
ListAsChecked(list, entries, fired, placeholder) ==
    /\ Len(list) \in 1..4
    /\ (\E i \in DOMAIN fired : fired[i]) => list = FiredEntries(entries, fired)
    /\ (\E i \in DOMAIN list : list[i] = placeholder) <=> (\A i \in DOMAIN fired : ~fired[i])

StrengthEntries ==
    <<"Strong financial performance and growth",
      "Robust business model and market position",
      "Manageable risk profile">>
StrengthFired(scores) ==
    <<RGe(ODGet(scores, "financial_score", NoneNum), Num(75)),
      RGe(ODGet(scores, "business_score", NoneNum), Num(75)),
      RGe(ODGet(scores, "risk_score", NoneNum), Num(75))>>

ConcernEntries ==
    <<"Weak financial performance or declining trends",
      "Elevated risk factors",
      "Potentially expensive valuation",
      "Multiple material risks identified">>
ConcernFired(analysis, scores) ==
    <<RLt(ODGet(scores, "financial_score", NoneNum), Num(50)),
      RLt(ODGet(scores, "risk_score", NoneNum), Num(50)),
      RLt(ODGet(scores, "valuation_score", NoneNum), Num(40)),
      /\ "risks" \in DOMAIN analysis
      /\ "summary" \in DOMAIN analysis["risks"]
      /\ StrLen(analysis["risks"]["summary"]) > 50>>

(* C19: the strengths list and the concerns list each hold 1 to 4 entries,  *)
(* the entries of the checks that fired in the order the checks are made,   *)
(* and the placeholder exactly when no check fired.                         *)
C19_StrengthsAndConcerns ==
    /\ call = "extract_key_strengths" =>
          ListAsChecked(result.key_strengths, StrengthEntries, StrengthFired(arg.scores),
                        "Moderate fundamentals across parameters")
    /\ call = "extract_key_concerns" =>
          ListAsChecked(result.key_concerns, ConcernEntries,
                        ConcernFired(arg.analysis, arg.scores),
                        "Standard IPO investment risks apply")

C19_Witness ==
    /\ call = "extract_key_concerns"
    /\ Len(result.key_concerns) = 4
    /\ result.key_concerns[1] = "Weak financial performance or declining trends"
    /\ result.key_concerns[4] = "Multiple material risks identified"

\* the closing body that belongs to a stance
ClosingBody(stance) ==
    CASE stance = "Conservative - Positive" ->
           "This IPO shows strong fundamentals across most parameters, suitable for conservative investors seeking quality."
      [] stance = "Neutral" ->
           "This IPO has a balanced risk-reward profile. Suitable for moderate investors willing to accept some uncertainty."
      [] stance = "Aggressive - Speculative" ->
           "This IPO carries elevated risks but may offer growth potential. Suitable only for aggressive investors."
      [] stance = "Avoid" ->
           "This IPO has significant concerns. Investors should carefully evaluate before participating."

(* C20: without a language model generate_recommendation returns, whatever  *)
(* the generator would have done, a recommendation with scores, overall     *)
(* score, stance, suitability, strengths, concerns and a template           *)
(* explanation whose closing body is the one of the returned stance.        *)
C20_TemplateWithoutModel ==
    (call = "generate_recommendation" /\ ~arg.llm) =>
        /\ ~result.raised
        /\ DOMAIN result.value
             = {"scores", "overall_score", "stance", "explanation", "suitability",
                "key_strengths", "key_concerns"}
        /\ result.value.stance
             \in {"Conservative - Positive", "Neutral", "Aggressive - Speculative", "Avoid"}
        /\ result.value.explanation.kind = "template"
        /\ result.value.explanation.stance = result.value.stance
        /\ result.value.explanation.body = ClosingBody(result.value.stance)

C20_Witness ==
    /\ call = "generate_recommendation"
    /\ ~arg.llm
    /\ arg.gen.raises
    /\ ~result.raised
    /\ result.value.stance = "Aggressive - Speculative"
    /\ result.value.explanation.body
         = "This IPO carries elevated risks but may offer growth potential. Suitable only for aggressive investors."

----------------------------------------------------------------------------
(* Properties of the statements retained (checked under SpecTable) *)

\* the positions of the tables marked financial that classify as the type
TablesOfType(tables, statement_type) ==
    {i \in DOMAIN tables :
        /\ tables[i].type = "financial"
        /\ _identify_statement_type(tables[i].data) = statement_type}

(* C21: each statement type's slot holds the preprocessed first table, in   *)
(* input order, that is marked financial and classifies as that type, and   *)
(* nothing when there is no such table; later tables of the type, tables    *)
(* of no type and tables not marked financial leave the slot alone.         *)
C21_FirstTablePerType ==
    call = "extract_financial_statements" =>
        /\ DOMAIN result.statements = {"profit_loss", "balance_sheet", "cash_flow"}
        /\ \A t \in DOMAIN result.statements :
              IF TablesOfType(arg.tables, t) = {}
              THEN result.statements[t] = None
              ELSE \E i \in TablesOfType(arg.tables, t) :
                      /\ \A j \in TablesOfType(arg.tables, t) : i <= j
                      /\ result.statements[t] = _process_financial_table(arg.tables[i].data)

C21_Witness ==
    /\ call = "extract_financial_statements"
    /\ arg.tables = <<[type |-> "other", data |-> ProfitFrame],
                      [type |-> "financial", data |-> IncomeFrame],
                      [type |-> "financial", data |-> ProfitFrame]>>
    /\ result.statements.profit_loss = IncomeFrame
    /\ result.statements.balance_sheet = None

\* the header holds a match of the year pattern
MatchesYearPattern(header) == YearSearch(header, 1) # <<0, 0>>

(* C24: after preprocessing every column but the label column has a header  *)
(* that matches the year pattern, also when no header of the table matches. *)
C24_OnlyYearColumnsSurvive ==
    call = "_process_financial_table" =>
        \A j \in 2..Len(result.df.columns) : MatchesYearPattern(result.df.columns[j])

----------------------------------------------------------------------------
(* Properties of the financial sub-score (checked under SpecEngine) *)

\* the value of a signal in the financials section, absent when any level
\* of the mapping is missing
SignalOf(analysis, group, key, absent) ==
    IF "financials" \notin DOMAIN analysis THEN absent
    ELSE IF group \notin DOMAIN analysis["financials"] THEN absent
    ELSE IF key \notin DOMAIN analysis["financials"][group] THEN absent
    ELSE analysis["financials"][group][key]

GrowthBonus(cagr) ==
    IF cagr = NoneNum THEN 0
    ELSE IF RGt(cagr, Num(20)) THEN 15
    ELSE IF RGt(cagr, Num(10)) THEN 10
    ELSE IF RGt(cagr, Num(5)) THEN 5
    ELSE 0

MarginBonus(margin) ==
    IF margin = NoneNum THEN 0
    ELSE IF RGt(margin, Num(20)) THEN 15
    ELSE IF RGt(margin, Num(10)) THEN 10
    ELSE IF RGt(margin, Num(5)) THEN 5
    ELSE 0

LeverageBonus(ratio) ==
    IF ratio = NoneNum THEN 0
    ELSE IF RLt(ratio, Rat(1, 2)) THEN 10
    ELSE IF RLt(ratio, Num(1)) THEN 5
    ELSE IF RGt(ratio, Num(2)) THEN -10
    ELSE 0

\* the value inserted last into a year-to-value mapping, none when empty
LastInserted(series) == IF series = <<>> THEN NoneNum ELSE series[Len(series)][2]

\* the value under the greatest year of a year-to-value mapping, none when empty
OfLatestYear(series) ==
    IF series = <<>> THEN NoneNum
    ELSE series[CHOOSE i \in DOMAIN series :
                    \A j \in DOMAIN series : series[j][1] <= series[i][1]][2]

Clamped(n) == IF n < 0 THEN Num(0) ELSE IF n > 100 THEN Num(100) ELSE Num(n)

(* C22: the financial sub-score is 50 plus the growth, margin and leverage  *)
(* bonuses, clamped to [0, 100]; the tiers are strict, and a signal group   *)
(* that is missing adds nothing.  The margin and the ratio are the values   *)
(* the mapping holds last.                                                  *)
C22_FinancialSubScore ==
    call = "calculate_scores" =>
        ODGet(result.scores, "financial_score", NoneNum)
          = Clamped(50
                    + GrowthBonus(SignalOf(arg.analysis, "growth_metrics",
                                           "revenue_cagr_3y", NoneNum))
                    + MarginBonus(LastInserted(SignalOf(arg.analysis, "basic_metrics",
                                                        "ebitda_margin", <<>>)))
                    + LeverageBonus(LastInserted(SignalOf(arg.analysis, "ratios",
                                                          "debt_to_equity", <<>>))))

C22_Witness ==
    /\ call = "calculate_scores"
    /\ SignalOf(arg.analysis, "growth_metrics", "revenue_cagr_3y", NoneNum) = Num(20)
    /\ SignalOf(arg.analysis, "basic_metrics", "ebitda_margin", <<>>) = << <<2023, Num(10)>> >>
    /\ SignalOf(arg.analysis, "ratios", "debt_to_equity", <<>>) = << <<2023, Num(2)>> >>
    /\ ODGet(result.scores, "financial_score", NoneNum) = Num(65)

(* C23: the margin bonus and the leverage bonus are those of the value      *)
(* under the greatest year of the mapping, whatever the order in which the  *)
(* years were inserted.                                                     *)
C23_LatestYearDecides ==
    call = "calculate_scores" =>
        ODGet(result.scores, "financial_score", NoneNum)
          = Clamped(50
                    + GrowthBonus(SignalOf(arg.analysis, "growth_metrics",
                                           "revenue_cagr_3y", NoneNum))
                    + MarginBonus(OfLatestYear(SignalOf(arg.analysis, "basic_metrics",
                                                        "ebitda_margin", <<>>)))
                    + LeverageBonus(OfLatestYear(SignalOf(arg.analysis, "ratios",
                                                          "debt_to_equity", <<>>))))

----------------------------------------------------------------------------
(* Properties of the risk records (checked under SpecLifecycle) *)

\* analyze_all_risks is between the creation of the records and its return
InAnalysis == call \in {"classify_risks", "assess_severity", "generate_risk_summary"}

\* the record is one of the records of the list, as it is in the list
HeldIn(records, risk) == \E k \in DOMAIN records : records[k] = risk

\* a step leaves the records in place: none is added, dropped or rewritten,
\* a category or severity once set stays, and a severity is set only on a
\* record that has its category
RecordsKept ==
    (InAnalysis /\ InAnalysis') =>
        /\ Len(result'.heap) = Len(result.heap)
        /\ \A k \in DOMAIN result.heap :
              /\ result'.heap[k].title = result.heap[k].title
              /\ result'.heap[k].description = result.heap[k].description
              /\ result.heap[k].category # NoneStr
                   => result'.heap[k].category = result.heap[k].category
              /\ result.heap[k].severity # NoneStr
                   => result'.heap[k].severity = result.heap[k].severity
              /\ result'.heap[k].severity # result.heap[k].severity
                   => result.heap[k].category # NoneStr

\* the records as the parser made them: category and severity unset
CreatedUnset ==
    call = "classify_risks" =>
        \A k \in DOMAIN result.heap :
            /\ result.heap[k].severity = NoneStr
            /\ k >= result.i => result.heap[k].category = NoneStr

\* what analyze_all_risks returns: every record complete and found, as it
\* is in all_risks, in the bucket of its category in both outputs
ReturnedComplete ==
    (call = "analyze_all_risks" /\ ~result.raised) =>
        LET v == result.value
        IN  /\ \A k \in DOMAIN v.all_risks :
                  /\ v.all_risks[k].category # NoneStr
                  /\ v.all_risks[k].severity # NoneStr
                  /\ HeldIn(v.classified_risks[v.all_risks[k].category], v.all_risks[k])
                  /\ HeldIn(v.severity_analysis[v.all_risks[k].category].risks,
                            v.all_risks[k])
            /\ \A cat \in DOMAIN v.classified_risks :
                  \A j \in DOMAIN v.classified_risks[cat] :
                      /\ HeldIn(v.all_risks, v.classified_risks[cat][j])
                      /\ v.classified_risks[cat][j].category = cat

(* C25: the records of analyze_all_risks are created with category and      *)
(* severity unset, are never made anew, get their category before their     *)
(* severity, and are all complete, and the same in all_risks and in the     *)
(* buckets, when the analysis returns.                                      *)
C25_RecordLifecycle ==
    /\ []CreatedUnset
    /\ [][RecordsKept]_vars
    /\ []ReturnedComplete

C25_Witness ==
    /\ call = "analyze_all_risks"
    /\ ~result.raised
    /\ Len(result.value.all_risks) = 3
    /\ \E k, l \in DOMAIN result.value.all_risks :
          /\ result.value.all_risks[k].category # result.value.all_risks[l].category
          /\ result.value.all_risks[k].severity # result.value.all_risks[l].severity

----------------------------------------------------------------------------
(* Properties of the buckets (checked under SpecLifecycle) *)

\* the sum of the counts of the categories of a severity analysis
RECURSIVE CountSum(_, _)
CountSum(severity_analysis, cats) ==
    IF cats = {} THEN 0
    ELSE LET cat == CHOOSE x \in cats : TRUE
         IN  severity_analysis[cat].count + CountSum(severity_analysis, cats \ {cat})

(* C29: after classify_risks and assess_severity every record is in exactly *)
(* one bucket, in input order within it; the counts of the categories sum   *)
(* to the number of records; in each category high + medium + low is its    *)
(* count; and get_risk_score averages over that number of records.          *)
C29_BucketsPartitionRecords ==
    call = "generate_risk_summary" =>
        /\ \A k \in DOMAIN result.heap :
              \E cat \in DOMAIN result.classified :
                  /\ \E j \in DOMAIN result.classified[cat] : result.classified[cat][j] = k
                  /\ \A other \in DOMAIN result.classified \ {cat} :
                        \A j \in DOMAIN result.classified[other] :
                            result.classified[other][j] # k
        /\ \A cat \in DOMAIN result.classified :
              \A j, l \in DOMAIN result.classified[cat] :
                  j < l => result.classified[cat][j] < result.classified[cat][l]
        /\ CountSum(result.severity_analysis, DOMAIN result.severity_analysis)
             = Len(result.heap)
        /\ \A cat \in DOMAIN result.severity_analysis :
              LET summary == result.severity_analysis[cat]
              IN  /\ summary.count = Len(result.classified[cat])
                  /\ summary.severity_breakdown.high + summary.severity_breakdown.medium
                       + summary.severity_breakdown.low = summary.count
        /\ RiskTotals(SeverityAnalysis(result), DOMAIN result.severity_analysis)[2]
             = Len(result.heap)
        /\ get_risk_score(SeverityAnalysis(result)) = AggregateRisk(result.heap)

C29_Witness ==
    /\ call = "generate_risk_summary"
    /\ Len(result.heap) = 3
    /\ Cardinality(DOMAIN result.severity_analysis) = 2
    /\ \E cat \in DOMAIN result.severity_analysis :
          result.severity_analysis[cat].count = 2
    /\ \E cat \in DOMAIN result.severity_analysis :
          result.severity_analysis[cat].severity_breakdown.low >= 1

----------------------------------------------------------------------------
(* Properties of the risk score within a run (checked under Spec) *)

\* the list holds the entry
Lists(list, entry) == \E i \in DOMAIN list : list[i] = entry

(* C30: in a run whose risk stage succeeded the aggregate risk score is 0   *)
(* when there is no risk record and at least 100/3 when there is one, never *)
(* in between; with a record the risk sub-score is at most 200/3, so a      *)
(* sub-score of 70 or more, the strength "Manageable risk profile" and the  *)
(* conservative suitability label only come with no record at all.          *)
C30_NoRiskScoreBelowOneThird ==
    (Recommended /\ StageSucceeded("analyze_risks")) =>
        LET n == Len(results["risks"].all_risks)
            risk_score == results["risks"].risk_score
            recommendation == results["recommendation"]
        IN  /\ n = 0 <=> risk_score = Num(0)
            /\ n > 0 => RGe(risk_score, Rat(100, 3)) /\ RLe(risk_score, Num(100))
            /\ n > 0 => RLe(SubScore("risk_score"), Rat(200, 3))
            /\ RGe(SubScore("risk_score"), Num(70)) => n = 0
            /\ Lists(recommendation.key_strengths, "Manageable risk profile") <=> n = 0
            /\ recommendation.suitability
                  = "Conservative investors seeking quality with lower risk" => n = 0

C30_Witness ==
    /\ Recommended
    /\ StageSucceeded("analyze_risks")
    /\ Len(results["risks"].all_risks) = 2
    /\ SeverityCount(results["risks"].all_risks, "Low") = 2
    /\ results["risks"].risk_score = Rat(100, 3)
    /\ SubScore("risk_score") = Rat(200, 3)
    /\ ~Lists(results["recommendation"].key_strengths, "Manageable risk profile")

----------------------------------------------------------------------------
(* Properties of the recommendation within a run (checked under Spec) *)

(* C26: in every run whose recommendation stage succeeds the business,      *)
(* financial, industry and valuation scores are 70, 50, 65 and 60 and the   *)
(* overall score lies in [51.5, 66.5], so the stance is Neutral or          *)
(* Aggressive - Speculative.                                                *)
C26_OverallScoreBand ==
    StageSucceeded("generate_recommendation") =>
        /\ SubScore("business_score") = Num(70)
        /\ SubScore("financial_score") = Num(50)
        /\ SubScore("industry_score") = Num(65)
        /\ SubScore("valuation_score") = Num(60)
        /\ RGe(results["recommendation"].overall_score, Rat(515, 10))
        /\ RLe(results["recommendation"].overall_score, Rat(665, 10))
        /\ results["recommendation"].stance \in {"Neutral", "Aggressive - Speculative"}

C26_Witness ==
    /\ StageSucceeded("generate_recommendation")
    /\ StageSucceeded("analyze_financials")
    /\ results["financials"].metrics.growth_metrics.revenue_cagr_3y = Num(25)
    /\ results["financials"].statements.profit_loss # None
    /\ StageSucceeded("analyze_risks")
    /\ results["recommendation"].overall_score = Rat(665, 10)
    /\ results["recommendation"].stance = "Neutral"

(* C27: when the generator fails while the explanation is requested, the    *)
(* result of the recommendation stage is {error: message} alone: no score,  *)
(* overall score, stance or explanation is in the report, and with a        *)
(* generator present no template explanation stands in for a generated one. *)
C27_FailedExplanationLosesScores ==
    /\ StageRaised("generate_recommendation") =>
          /\ components.llm
          /\ results["recommendation"] = ErrorResult(outcome["generate_recommendation"].msg)
          /\ DOMAIN results["recommendation"] = {"error"}
          /\ ret.returned => DOMAIN ret.value["recommendation"] = {"error"}
    /\ (StageSucceeded("generate_recommendation") /\ components.llm) =>
          results["recommendation"].explanation.kind = "generated"

C27_Witness ==
    /\ StageRaised("generate_recommendation")
    /\ StageSucceeded("analyze_risks")
    /\ ret.returned
    /\ ret.value["recommendation"] = ErrorResult("generation failed")

(* C28: whichever of stages 3-6 failed, a recommendation stage whose        *)
(* generator call did not fail returns the full recommendation; a failed    *)
(* risk stage is scored 50 and a failed financial stage 50, as a stage      *)
(* without data is.                                                         *)
C28_FailedStagesScoredNeutral ==
    /\ StageRaised("generate_recommendation") =>
          /\ components.llm
          /\ \E gen \in GenBehaviours :
                gen.raises /\ outcome["generate_recommendation"].msg = gen.msg
    /\ StageSucceeded("generate_recommendation") =>
        /\ DOMAIN results["recommendation"]
             = {"scores", "overall_score", "stance", "explanation", "suitability",
                "key_strengths", "key_concerns"}
        /\ StageRaised("analyze_risks") =>
              /\ SubScore("risk_score") = Num(50)
              /\ SubScore("risk_score") = _score_risk(EmptyDict)
        /\ StageRaised("analyze_financials") =>
              /\ SubScore("financial_score") = Num(50)
              /\ SubScore("financial_score") = _score_financials(EmptyDict)

C28_Witness ==
    /\ StageSucceeded("generate_recommendation")
    /\ \A s \in {StageOrder[i] : i \in 3..6} : StageRaised(s)
    /\ components.llm
    /\ results["recommendation"].explanation.kind = "generated"
    /\ results["recommendation"].overall_score = Num(59)

====
